---- MODULE Spec2Model ----
(***************************************************************************)
(* Client-side widget API state machine of matrix-sdk                      *)
(* (crates/matrix-sdk/src/widget/client/handler).                          *)
(*                                                                         *)
(* MessageHandler::handle validates incoming widget messages, answers      *)
(* GetSupportedApiVersion on a fast path and forwards every other request  *)
(* over an unbounded channel to the task running State::listen.  That task *)
(* negotiates capabilities (State::initialize) and handles one request at  *)
(* a time (State::handle).  Every `.await` that waits for another party    *)
(* (the widget's answer to an outgoing request, the chat client, the       *)
(* permissions provider, an OpenID handle) is a position of `pc`; the code *)
(* between two such positions is one action.                               *)
(*                                                                         *)
(* Further components, each with a specification of its own in which the   *)
(* others stay idle: the encoding of Permissions as a list of strings      *)
(* (widget/permissions.rs, PermissionsSpec), the matching of events        *)
(* against event filters (widget/filter.rs, FilterSpec), DebugMutex        *)
(* (matrix-sdk-ui/src/debug.rs, MutexSpec) and the SyncResponseBuilder of  *)
(* matrix-sdk-test (event_builder/mod.rs, BuilderSpec).                    *)
(***************************************************************************)
EXTENDS Integers, Sequences, FiniteSets, TLC

\* Number of messages the widget sends to MessageHandler::handle in a session.
MaxRequests == 2

\* Largest number of filters (read and send together) of a Permissions value that
\* is serialized
MaxFilters == 3

\* Largest number of strings of a list that is parsed
MaxStrings == 3

\* Largest number of serializations and parsings applied in a row
MaxSteps == 3

\* Largest number of filters an event is matched against in a row
MaxMatches == 2

\* Number of tasks that call DebugMutex::lock (each once, from its own call site)
MaxCallers == 3

\* Largest number of calls made on a SyncResponseBuilder
MaxCalls == 5

\* Option::None; every Option value of the model is a record
None == [none |-> TRUE]

VARIABLES
    init_on_load,   \* WidgetSettings::init_on_load
    connected,      \* the transport to the widget still delivers messages
    state_tx,       \* the MessageHandler (owner of state_tx) is still alive
    incoming,       \* messages passed to MessageHandler::handle, with its result
    state_rx,       \* the unbounded channel between handle() and listen()
    capabilities,   \* State::capabilities
    pc,             \* position of the State::listen task
    request,        \* the request State::handle is working on
    initCaller,     \* who called State::initialize: "listen" or "handle"
    desired,        \* local `desired` of State::initialize
    transport,      \* everything emitted to the widget, in order
    clientCalls,    \* operations invoked on the chat client (MatrixDriver)
    dispatched,     \* requests taken from the channel by listen(), in order
    handled,        \* requests whose loop iteration in listen() has ended
    initResults,    \* results of the State::initialize calls, in order
    widgetResponses, \* the widget's answers to outgoing requests, in order
    permissions,    \* a Permissions value: to be serialized, or just parsed
    wire,           \* a list of permission strings: to be parsed, or just serialized
    perm_pc,        \* which of the two is current: "value" or "strings" ("idle": none)
    perm_log,       \* the serializations and parsings applied, with input and output
    send_event_request, \* a SendEventRequest whose event is to be matched
    matrix_event,   \* the MatrixEventFilterInput built from it
    filter_pc,      \* "request": not yet converted, "input": converted ("idle": none)
    filter_log,     \* the EventFilter::matches calls applied, with filter and result
    inner,          \* DebugMutex::inner: the caller owning the tokio mutex (0: free)
    waiters,        \* the wait queue of the tokio mutex, oldest first
    last_locked_from, \* DebugMutex::last_locked_from
    lock_pc,        \* position of each caller of DebugMutex::lock
    diagnostics,    \* the warn! / error! records emitted by lock(), in order
    lock_calls,     \* the callers in the order they started to wait for the mutex
    grants,         \* the callers in the order the mutex was granted to them
    joined_rooms,   \* SyncResponseBuilderInner::joined_rooms
    invited_rooms,  \* SyncResponseBuilderInner::invited_rooms
    left_rooms,     \* SyncResponseBuilderInner::left_rooms
    presence,       \* SyncResponseBuilderInner::presence
    account_data,   \* SyncResponseBuilderInner::account_data
    batch_counter,  \* SyncResponseBuilderInner::batch_counter
    room_adds,      \* per room, the add_* calls applied, with a mark where the maps were cleared
    responses,      \* the bodies returned by build_json_sync_response, in order
    builder_calls   \* number of calls made on the builder

\* The variables of the widget session
widgetVars == <<init_on_load, connected, state_tx, incoming, state_rx, capabilities,
                pc, request, initCaller, desired, transport, clientCalls, dispatched,
                handled, initResults, widgetResponses>>

\* The variables of the permissions encoding
permVars == <<permissions, wire, perm_pc, perm_log>>

\* The variables of event filter matching
filterVars == <<send_event_request, matrix_event, filter_pc, filter_log>>

\* The variables of DebugMutex and its callers
mutexVars == <<inner, waiters, last_locked_from, lock_pc, diagnostics, lock_calls, grants>>

\* The variables of SyncResponseBuilder
builderVars == <<joined_rooms, invited_rooms, left_rooms, presence, account_data,
                 batch_counter, room_adds, responses, builder_calls>>

vars == <<init_on_load, connected, state_tx, incoming, state_rx, capabilities,
          pc, request, initCaller, desired, transport, clientCalls, dispatched,
          handled, initResults, widgetResponses, permissions, wire, perm_pc, perm_log,
          send_event_request, matrix_event, filter_pc, filter_log,
          inner, waiters, last_locked_from, lock_pc, diagnostics, lock_calls, grants,
          joined_rooms, invited_rooms, left_rooms, presence, account_data,
          batch_counter, room_adds, responses, builder_calls>>

\* Each component on its own: what a specification of one component leaves
\* unchanged
notWidgetVars == <<permVars, filterVars, mutexVars, builderVars>>
notPermVars == <<widgetVars, filterVars, mutexVars, builderVars>>
notFilterVars == <<widgetVars, permVars, mutexVars, builderVars>>
notMutexVars == <<widgetVars, permVars, filterVars, builderVars>>
notBuilderVars == <<widgetVars, permVars, filterVars, mutexVars>>

\* No widget session runs
WidgetIdle ==
    /\ init_on_load = FALSE
    /\ connected = TRUE
    /\ state_tx = TRUE
    /\ incoming = <<>>
    /\ state_rx = <<>>
    /\ capabilities = None
    /\ pc = "start"
    /\ request = None
    /\ initCaller = None
    /\ desired = None
    /\ transport = <<>>
    /\ clientCalls = <<>>
    /\ dispatched = <<>>
    /\ handled = <<>>
    /\ initResults = <<>>
    /\ widgetResponses = <<>>

\* No Permissions value is encoded
PermIdle ==
    /\ permissions = [read |-> <<>>, send |-> <<>>, requires_client |-> FALSE]
    /\ wire = <<>>
    /\ perm_pc = "idle"
    /\ perm_log = <<>>

\* No event is matched
FilterIdle ==
    /\ send_event_request = None
    /\ matrix_event = None
    /\ filter_pc = "idle"
    /\ filter_log = <<>>

\* No DebugMutex exists
MutexIdle ==
    /\ inner = 0
    /\ waiters = <<>>
    /\ last_locked_from = None
    /\ lock_pc = <<>>
    /\ diagnostics = <<>>
    /\ lock_calls = <<>>
    /\ grants = <<>>

\* No SyncResponseBuilder exists
BuilderIdle ==
    /\ joined_rooms = <<>>
    /\ invited_rooms = <<>>
    /\ left_rooms = <<>>
    /\ presence = <<>>
    /\ account_data = <<>>
    /\ batch_counter = 0
    /\ room_adds = <<>>
    /\ responses = <<>>
    /\ builder_calls = 0

----------------------------------------------------------------------------
(* Data *)

\* Variants generated by generate_requests!
RequestVariants ==
    {"GetSupportedApiVersion", "ContentLoaded", "GetOpenId", "SendEvent", "ReadEvent"}

MessageKinds == {"Request", "Response"}

\* from_widget::Action: a variant wrapping MessageKind::Request or ::Response
\* (the widget's messages: every request, and one response in incoming position)
Actions == [variant : RequestVariants, kind : {"Request"}]
               \cup [variant : {"ContentLoaded"}, kind : {"Response"}]

\* Result::Ok / Result::Err (err is "" in an Ok)
Ok(v) == [ok |-> TRUE, val |-> v, err |-> ""]
Err(e) == [ok |-> FALSE, val |-> None, err |-> e]

\* messages::Empty
Empty == [empty |-> TRUE]

\* Error values of the handler and their Display form
ErrCustom(msg) == [tag |-> "Custom", msg |-> msg]
ErrWidgetDisconnected == [tag |-> "WidgetDisconnected", msg |-> "WidgetDisconnected"]
ErrWidgetErrorReply(msg) == [tag |-> "WidgetErrorReply", msg |-> msg]
to_string(e) == IF e.tag = "Custom" THEN e.msg ELSE e.tag

\* Permissions { read, send, requires_client }
Filters == {"m.text"}
FilterLists == {<<>>} \cup {<<f>> : f \in Filters}
PermissionsSet == [read : FilterLists, send : FilterLists, requires_client : {FALSE}]

\* PermissionsProvider::acquire_permissions grants a part of what was requested
Granted(l, m) == l = <<>> \/ l = m
AcquirePermissions(d) ==
    {p \in PermissionsSet : Granted(p.read, d.read) /\ Granted(p.send, d.send)}

\* Capabilities built by MatrixDriver::initialize from the approved permissions:
\* the reader / sender handle exists iff a read / send filter was approved.
CapabilitiesOf(p) ==
    [read |-> p.read, send |-> p.send, requires_client |-> p.requires_client,
     reader |-> p.read # <<>>, sender |-> p.send # <<>>]

\* impl From<&Capabilities> for Permissions
PermissionsFrom(c) ==
    [read |-> c.read, send |-> c.send, requires_client |-> c.requires_client]

\* Mutant of SupportedApiVersionsResponse_new: the last version is left out
SupportedApiVersionsResponse_new_Short ==
    [versions |-> <<"V0_0_1", "V0_0_2", "MSC2762", "MSC2871">>]

\* SupportedApiVersionsResponse::new
SupportedApiVersionsResponse_new ==
    [versions |-> <<"V0_0_1", "V0_0_2", "MSC2762", "MSC2871", "MSC3819">>]

----------------------------------------------------------------------------
(* incoming.rs: typed requests and their responses *)

\* WithHeader::new
WithHeader(header, data) == [header |-> header, data |-> data]

\* Mutant of Request_new: the message kind is not examined
Request_new_AnyKind(header, action) ==
    IF action.variant \in RequestVariants
    THEN [variant |-> action.variant, with |-> WithHeader(header, action.kind)]
    ELSE None

\* Request::new: a typed request for the five variants in Request kind only
Request_new(header, action) ==
    IF action.variant \in RequestVariants /\ action.kind = "Request"
    THEN [variant |-> action.variant, with |-> WithHeader(header, action.kind)]
    ELSE None

\* Mutant of map: the response is built with a default header
map_DefaultHeader(req, response_data) ==
    [type |-> "response", header |-> 0, action |-> req.variant,
     ok |-> response_data.ok, val |-> response_data.val, err |-> response_data.err]

\* $request::map: the response carries the request's header and variant
map(req, response_data) ==
    [type |-> "response", header |-> req.with.header, action |-> req.variant,
     ok |-> response_data.ok, val |-> response_data.val, err |-> response_data.err]

\* Request::fail
fail(req, error) == map(req, Err(error))

\* An outgoing (client -> widget) request put on the transport by WidgetProxy::send
Outgoing(action, data) ==
    [type |-> "request", header |-> 0, action |-> action,
     ok |-> TRUE, val |-> data, err |-> ""]

\* The error message the caller of MessageHandler::handle sends to the widget
\* for a message handle() rejected: the original header and the error text
ErrorReport(header, action, error) ==
    [type |-> "error", header |-> header, action |-> action.variant,
     ok |-> FALSE, val |-> None, err |-> error]

\* The caller of MessageHandler::handle reports the rejection to the widget (it
\* arrives iff the widget is connected)
ReportError(tr, header, action, error) ==
    IF connected THEN Append(tr, ErrorReport(header, action, error)) ELSE tr

\* WidgetProxy::reply, awaited: the response reaches the widget iff it is connected
Reply(tr, response) == IF connected THEN Append(tr, response) ELSE tr

\* WidgetProxy::reply whose future is dropped without being awaited
ReplyNotAwaited(tr, response) == tr

----------------------------------------------------------------------------
(* state.rs: decisions of State::listen / State::handle / State::initialize *)

\* Mutant of InitializeOnStart: the flag is ignored, no negotiation at start
InitializeOnStart_Never(iol) == FALSE

\* Mutant of InitializeOnStart: the flag is ignored, negotiation always at start
InitializeOnStart_Always(iol) == TRUE

\* State::listen: `if !self.widget.init_on_load()` - negotiate before the loop
InitializeOnStart(iol) == ~iol

\* Mutant of ListenAfterInitialize: the `return` is missing
ListenAfterInitialize_Continue(res) == "recv"

\* State::listen: after initialize() at start, Err returns (task ends)
ListenAfterInitialize(res) == IF res.ok THEN "recv" ELSE "done"

\* Mutant of ContentLoadedDecision: negotiates on every ContentLoaded
ContentLoadedDecision_AlwaysNegotiate(iol, capabilities_) ==
    IF iol THEN [response |-> Ok(Empty), negotiate |-> TRUE]
    ELSE [response |-> Ok(Empty), negotiate |-> FALSE]

\* Mutant of ContentLoadedDecision: never rejects a repeated ContentLoaded
ContentLoadedDecision_NeverRejects(iol, capabilities_) ==
    IF iol /\ capabilities_ = None THEN [response |-> Ok(Empty), negotiate |-> TRUE]
    ELSE [response |-> Ok(Empty), negotiate |-> FALSE]

\* Mutant of ContentLoadedDecision: a ContentLoaded never starts the negotiation
ContentLoadedDecision_NeverNegotiates(iol, capabilities_) ==
    IF iol /\ capabilities_ = None THEN [response |-> Ok(Empty), negotiate |-> FALSE]
    ELSE IF iol THEN [response |-> Err("Already loaded"), negotiate |-> FALSE]
    ELSE [response |-> Ok(Empty), negotiate |-> FALSE]

\* State::handle, ContentLoaded: the (response, negotiate) pair
ContentLoadedDecision(iol, capabilities_) ==
    IF iol /\ capabilities_ = None THEN [response |-> Ok(Empty), negotiate |-> TRUE]
    ELSE IF iol THEN [response |-> Err("Already loaded"), negotiate |-> FALSE]
    ELSE [response |-> Ok(Empty), negotiate |-> FALSE]

\* Mutant of caps: missing capabilities are replaced by a default with both handles
caps_Unchecked(capabilities_) ==
    IF capabilities_ = None
    THEN Ok([read |-> <<>>, send |-> <<>>, requires_client |-> FALSE,
             reader |-> TRUE, sender |-> TRUE])
    ELSE Ok(capabilities_)

\* State::caps
caps(capabilities_) ==
    IF capabilities_ = None
    THEN Err(ErrCustom("Capabilities have not been negotiated"))
    ELSE Ok(capabilities_)

\* State::handle, ReadEvent: `self.caps()?.reader.as_ref().ok_or(..)?`
ReaderOf(capabilities_) ==
    LET c == caps(capabilities_) IN
    IF ~c.ok THEN c
    ELSE IF ~c.val.reader THEN Err(ErrCustom("No permissions to read events"))
    ELSE Ok(c.val)

\* Mutant of SenderOf: the sender handle is used without checking that it exists
SenderOf_HandleUnchecked(capabilities_) ==
    caps(capabilities_)

\* State::handle, SendEvent: `self.caps()?.sender.as_ref().ok_or(..)?`
SenderOf(capabilities_) ==
    LET c == caps(capabilities_) IN
    IF ~c.ok THEN c
    ELSE IF ~c.val.sender THEN Err(ErrCustom("No permissions to send events"))
    ELSE Ok(c.val)

\* Mutant of CapabilitiesUpdatedRequest: requested and approved are swapped
CapabilitiesUpdatedRequest_Swapped(desired_, capabilities_) ==
    [requested |-> PermissionsFrom(capabilities_), approved |-> desired_]

\* State::initialize: the CapabilitiesUpdatedRequest built from `desired` and the
\* capabilities just stored
CapabilitiesUpdatedRequest(desired_, capabilities_) ==
    [requested |-> desired_, approved |-> PermissionsFrom(capabilities_)]

\* An entry of widgetResponses: the outgoing request answered and the answer
WidgetResponse(action, res) == [to |-> action, ok |-> res.ok]

\* An entry of clientCalls: the operation, the request it serves (0: none) and
\* whether capabilities were set when it was invoked
ClientCall(op, header) ==
    [op |-> op, header |-> header, negotiated |-> capabilities # None]

----------------------------------------------------------------------------
(* Continuations shared by the actions of the listen task *)

\* An entry of handled: the request whose loop iteration ended, whether the widget
\* was connected then, and the error State::handle returned ("" for Ok)
Handled(req, res) ==
    [header |-> req.with.header, connected |-> connected,
     err |-> IF res.ok THEN "" ELSE to_string(res.err)]

\* Mutant of AfterHandle: an Err of State::handle is dropped, no failed response
\* is sent
AfterHandle_ErrorDropped(req, res, tr) ==
    /\ transport' = tr
    /\ pc' = "recv"
    /\ handled' = Append(handled, Handled(req, res))
    /\ request' = None

\* State::listen, loop body after `self.handle(request.clone()).await`: an Err is
\* sent as a failed response; if that reply cannot be sent the loop breaks.
AfterHandle(req, res, tr) ==
    /\ IF res.ok
       THEN transport' = tr /\ pc' = "recv"
       ELSE IF connected
            THEN transport' = Append(tr, fail(req, to_string(res.err))) /\ pc' = "recv"
            ELSE transport' = tr /\ pc' = "done"
    /\ handled' = Append(handled, Handled(req, res))
    /\ request' = None

\* Return of State::initialize to its caller
InitializeReturn(caller, req, res, tr) ==
    /\ initResults' = Append(initResults, res)
    /\ initCaller' = None
    /\ desired' = None
    /\ IF caller = "listen"
       THEN /\ pc' = ListenAfterInitialize(res)
            /\ transport' = tr
            /\ UNCHANGED <<handled, request>>
       ELSE AfterHandle(req, res, tr)

\* Entry of State::initialize: the outgoing Capabilities request is sent and its
\* response awaited; sending to a disconnected widget fails at once.
InitializeCall(caller, req, tr) ==
    IF connected
    THEN /\ transport' = Append(tr, Outgoing("Capabilities", Empty))
         /\ pc' = "init_capabilities"
         /\ initCaller' = caller
         /\ request' = req
         /\ UNCHANGED <<handled, initResults, desired>>
    ELSE InitializeReturn(caller, req, Err(ErrWidgetDisconnected), tr)

----------------------------------------------------------------------------
(* permissions.rs: Permissions and their encoding as a list of strings.     *)
(* Strings are TLA+ strings; Len, SubSeq and \o act on their characters.    *)

SEND_EVENT == "org.matrix.msc2762.m.send.event"
READ_EVENT == "org.matrix.msc2762.m.receive.event"
SEND_STATE == "org.matrix.msc2762.m.send.state_event"
READ_STATE == "org.matrix.msc2762.m.receive.state_event"
REQUIRES_CLIENT == "io.element.requires_client"

\* Option::Some
Some(v) == [some |-> v]

\* EventFilter::MessageLike / EventFilter::State
MessageLike(f) == [kind |-> "MessageLike", filter |-> f]
State(f) == [kind |-> "State", filter |-> f]

\* MessageLikeEventFilter::WithType / StateEventFilter::WithType
WithType(event_type) == [tag |-> "WithType", event_type |-> event_type]

\* MessageLikeEventFilter::RoomMessageWithMsgtype
RoomMessageWithMsgtype(msgtype) == [tag |-> "RoomMessageWithMsgtype", msgtype |-> msgtype]

\* StateEventFilter::WithTypeAndStateKey
WithTypeAndStateKey(event_type, state_key) ==
    [tag |-> "WithTypeAndStateKey", event_type |-> event_type, state_key |-> state_key]

\* Permissions::default
Permissions_default == [read |-> <<>>, send |-> <<>>, requires_client |-> FALSE]

\* Position of the first occurrence of the character c in s (0: there is none)
find(s, c) ==
    LET I == {i \in 1..Len(s) : SubSeq(s, i, i) = c} IN
    IF I = {} THEN 0 ELSE CHOOSE i \in I : \A j \in I : i <= j

\* str::split_once: the parts before and after the first occurrence of c
split_once(s, c) ==
    LET i == find(s, c) IN
    IF i = 0 THEN None ELSE Some(<<SubSeq(s, 1, i - 1), SubSeq(s, i + 1, Len(s))>>)

\* str::strip_prefix
strip_prefix(s, prefix) ==
    IF Len(s) >= Len(prefix) /\ SubSeq(s, 1, Len(prefix)) = prefix
    THEN Some(SubSeq(s, Len(prefix) + 1, Len(s)))
    ELSE None

\* impl Display for PrintMessageLikeEventFilter
PrintMessageLikeEventFilter(f) ==
    IF f.tag = "WithType" THEN f.event_type
    ELSE "m.room.message#" \o f.msgtype

\* Mutant of PrintStateEventFilter: the '#' between type and state key is left out
PrintStateEventFilter_NoSeparator(f) ==
    IF f.tag = "WithType" THEN f.event_type
    ELSE f.event_type \o f.state_key

\* impl Display for PrintStateEventFilter
PrintStateEventFilter(f) ==
    IF f.tag = "WithType" THEN f.event_type
    ELSE f.event_type \o "#" \o f.state_key

\* impl Display for PrintEventFilter
PrintEventFilter(filter) ==
    IF filter.kind = "MessageLike" THEN PrintMessageLikeEventFilter(filter.filter)
    ELSE PrintStateEventFilter(filter.filter)

\* Permissions::serialize: `let seq_len = ..`, the length announced to the serializer
seq_len(p) == (IF p.requires_client THEN 1 ELSE 0) + Len(p.read) + Len(p.send)

\* Permissions::serialize: `name` of a read filter / of a send filter
read_name(filter) == IF filter.kind = "MessageLike" THEN READ_EVENT ELSE READ_STATE
send_name(filter) == IF filter.kind = "MessageLike" THEN SEND_EVENT ELSE SEND_STATE

\* Mutant of Permissions_serialize: the send filters are written before the read
\* filters
Permissions_serialize_SendFirst(p) ==
    (IF p.requires_client THEN <<REQUIRES_CLIENT>> ELSE <<>>)
    \o [i \in 1..Len(p.send) |->
            send_name(p.send[i]) \o ":" \o PrintEventFilter(p.send[i])]
    \o [i \in 1..Len(p.read) |->
            read_name(p.read[i]) \o ":" \o PrintEventFilter(p.read[i])]

\* Permissions::serialize: the elements written to the sequence, in order
Permissions_serialize(p) ==
    (IF p.requires_client THEN <<REQUIRES_CLIENT>> ELSE <<>>)
    \o [i \in 1..Len(p.read) |->
            read_name(p.read[i]) \o ":" \o PrintEventFilter(p.read[i])]
    \o [i \in 1..Len(p.send) |->
            send_name(p.send[i]) \o ":" \o PrintEventFilter(p.send[i])]

\* Mutant of parse_message_event_filter: the prefix stripped lacks its '#'
parse_message_event_filter_NoHash(s) ==
    LET msgtype == strip_prefix(s, "m.room.message") IN
    IF msgtype # None THEN RoomMessageWithMsgtype(msgtype.some)
    ELSE WithType(s)

\* parse_message_event_filter
parse_message_event_filter(s) ==
    LET msgtype == strip_prefix(s, "m.room.message#") IN
    IF msgtype # None THEN RoomMessageWithMsgtype(msgtype.some)
    ELSE WithType(s)

\* Mutant of parse_state_event_filter: the string is split at its last '#'
parse_state_event_filter_LastHash(s) ==
    LET I == {i \in 1..Len(s) : SubSeq(s, i, i) = "#"} IN
    IF I = {} THEN WithType(s)
    ELSE LET i == CHOOSE k \in I : \A j \in I : j <= k IN
         WithTypeAndStateKey(SubSeq(s, 1, i - 1), SubSeq(s, i + 1, Len(s)))

\* parse_state_event_filter
parse_state_event_filter(s) ==
    LET parts == split_once(s, "#") IN
    IF parts # None THEN WithTypeAndStateKey(parts.some[1], parts.some[2])
    ELSE WithType(s)

\* Mutant of Permission_deserialize: every string that starts with the
\* requires_client literal is taken for it
Permission_deserialize_LaxLiteral(s) ==
    IF strip_prefix(s, REQUIRES_CLIENT) # None THEN [tag |-> "RequiresClient"]
    ELSE LET parts == split_once(s, ":") IN
         IF parts = None THEN [tag |-> "Unknown"]
         ELSE LET name == parts.some[1]
                  filter_s == parts.some[2]
              IN  IF name = READ_EVENT
                  THEN [tag |-> "Read",
                        filter |-> MessageLike(parse_message_event_filter(filter_s))]
                  ELSE IF name = SEND_EVENT
                  THEN [tag |-> "Send",
                        filter |-> MessageLike(parse_message_event_filter(filter_s))]
                  ELSE IF name = READ_STATE
                  THEN [tag |-> "Read",
                        filter |-> State(parse_state_event_filter(filter_s))]
                  ELSE IF name = SEND_STATE
                  THEN [tag |-> "Send",
                        filter |-> State(parse_state_event_filter(filter_s))]
                  ELSE [tag |-> "Unknown"]

\* Permission::deserialize: one string of the list
Permission_deserialize(s) ==
    IF s = REQUIRES_CLIENT THEN [tag |-> "RequiresClient"]
    ELSE LET parts == split_once(s, ":") IN
         IF parts = None THEN [tag |-> "Unknown"]
         ELSE LET name == parts.some[1]
                  filter_s == parts.some[2]
              IN  IF name = READ_EVENT
                  THEN [tag |-> "Read",
                        filter |-> MessageLike(parse_message_event_filter(filter_s))]
                  ELSE IF name = SEND_EVENT
                  THEN [tag |-> "Send",
                        filter |-> MessageLike(parse_message_event_filter(filter_s))]
                  ELSE IF name = READ_STATE
                  THEN [tag |-> "Read",
                        filter |-> State(parse_state_event_filter(filter_s))]
                  ELSE IF name = SEND_STATE
                  THEN [tag |-> "Send",
                        filter |-> State(parse_state_event_filter(filter_s))]
                  ELSE [tag |-> "Unknown"]

\* Permissions::deserialize: the loop over the parsed elements
RECURSIVE DeserializeLoop(_, _, _)
DeserializeLoop(strings, i, permissions_) ==
    IF i > Len(strings) THEN permissions_
    ELSE LET permission == Permission_deserialize(strings[i]) IN
         DeserializeLoop(strings, i + 1,
            CASE permission.tag = "RequiresClient" ->
                    [permissions_ EXCEPT !.requires_client = TRUE]
              [] permission.tag = "Read" ->
                    [permissions_ EXCEPT !.read = Append(@, permission.filter)]
              [] permission.tag = "Send" ->
                    [permissions_ EXCEPT !.send = Append(@, permission.filter)]
              [] permission.tag = "Unknown" -> permissions_)

\* Permissions::deserialize
Permissions_deserialize(strings) == DeserializeLoop(strings, 1, Permissions_default)

\* The filters that are serialized: each variant, with event types, message
\* types and state keys with and without the separators '#' and ':'
MessageLikeEventFilters ==
    {WithType("m.room.message"), WithType("m.room.message#a"),
     RoomMessageWithMsgtype("a#:")}
StateEventFilters ==
    {WithType("m.room.message#a"),
     WithTypeAndStateKey("m.room.message", ""),
     WithTypeAndStateKey("m.room.message", "a#:")}
EventFilters ==
    {MessageLike(f) : f \in MessageLikeEventFilters}
        \cup {State(f) : f \in StateEventFilters}

\* The Permissions values that are serialized: at most MaxFilters filters
PermissionValues ==
    UNION {UNION {{[read |-> r, send |-> s, requires_client |-> c] :
                        r \in [1..n -> EventFilters],
                        s \in [1..m -> EventFilters],
                        c \in BOOLEAN} :
                  m \in 0..(MaxFilters - n)} :
           n \in 0..MaxFilters}

\* Strings a widget may send that are no permission of permissions.rs
UnknownStrings ==
    {"org.example.unknown:xyz", "org.matrix.msc2762.m.send.event",
     "io.element.requires_client:a", ""}

\* The strings that are parsed: the literal, each of the four prefixes with a
\* filter string, and the unknown ones
WireStrings ==
    {REQUIRES_CLIENT,
     READ_EVENT \o ":m.room.message#",
     SEND_EVENT \o ":m.room.message",
     READ_STATE \o ":m.room.message#a#:",
     SEND_STATE \o ":m.room.message"}
        \cup UnknownStrings

\* The lists of strings that are parsed: at most MaxStrings strings
WireLists == UNION {[1..n -> WireStrings] : n \in 0..MaxStrings}

----------------------------------------------------------------------------
(* Initial state: MessageHandler::new has spawned State::new(..).listen(rx) *)

Init ==
    /\ init_on_load \in BOOLEAN
    /\ connected = TRUE
    /\ state_tx = TRUE
    /\ incoming = <<>>
    /\ state_rx = <<>>
    /\ capabilities = None
    /\ pc = "start"
    /\ request = None
    /\ initCaller = None
    /\ desired = None
    /\ transport = <<>>
    /\ clientCalls = <<>>
    /\ dispatched = <<>>
    /\ handled = <<>>
    /\ initResults = <<>>
    /\ widgetResponses = <<>>
    /\ permissions = Permissions_default
    /\ wire = <<>>
    /\ perm_pc = "idle"
    /\ perm_log = <<>>
    /\ FilterIdle
    /\ MutexIdle
    /\ BuilderIdle

----------------------------------------------------------------------------
(* mod.rs: MessageHandler::handle, called by the transport for each message *)

\* Mutant of state_tx_send: the request is put at the front of the channel
state_tx_send_Front(queue, req) == <<req>> \o queue

\* `self.state_tx.send(request)`: the request is appended to the unbounded channel
\* read by State::listen
state_tx_send(queue, req) == Append(queue, req)

\* Mutant of Handle: GetSupportedApiVersion is put on the channel like the other
\* requests
Handle_AllQueued ==
    /\ state_tx
    /\ Len(incoming) < MaxRequests
    /\ \E action \in Actions :
        LET header == Len(incoming) + 1
            req == Request_new(header, action)
            Record(ret) == Append(incoming, [header |-> header, action |-> action, ret |-> ret])
        IN  IF req = None
            THEN /\ incoming' = Record(Err("Invalid message"))
                 /\ transport' = ReportError(transport, header, action, "Invalid message")
                 /\ UNCHANGED state_rx
            ELSE IF pc # "done"
            THEN /\ state_rx' = state_tx_send(state_rx, req)
                 /\ incoming' = Record(Ok(Empty))
                 /\ UNCHANGED transport
            ELSE /\ incoming' = Record(Err("WidgetDisconnected"))
                 /\ UNCHANGED <<state_rx, transport>>
    /\ UNCHANGED <<widgetResponses, init_on_load, connected, state_tx, capabilities, pc, request,
                   initCaller, desired, clientCalls, dispatched, handled, initResults>>
    /\ UNCHANGED notWidgetVars

\* Result of MessageHandler::handle and its effect on the channel / transport
Handle ==
    /\ state_tx
    /\ Len(incoming) < MaxRequests
    /\ \E action \in Actions :
        LET header == Len(incoming) + 1
            req == Request_new(header, action)
            Record(ret) == Append(incoming, [header |-> header, action |-> action, ret |-> ret])
        IN  IF req = None
            THEN /\ incoming' = Record(Err("Invalid message"))
                 /\ transport' = ReportError(transport, header, action, "Invalid message")
                 /\ UNCHANGED state_rx
            ELSE IF req.variant = "GetSupportedApiVersion"
            THEN /\ transport' = Reply(transport, map(req, Ok(SupportedApiVersionsResponse_new)))
                 /\ incoming' = Record(IF connected THEN Ok(Empty) ELSE Err("WidgetDisconnected"))
                 /\ UNCHANGED state_rx
            ELSE IF pc # "done"
            THEN /\ state_rx' = state_tx_send(state_rx, req)
                 /\ incoming' = Record(Ok(Empty))
                 /\ UNCHANGED transport
            ELSE /\ incoming' = Record(Err("WidgetDisconnected"))
                 /\ UNCHANGED <<state_rx, transport>>
    /\ UNCHANGED <<widgetResponses, init_on_load, connected, state_tx, capabilities, pc, request,
                   initCaller, desired, clientCalls, dispatched, handled, initResults>>
    /\ UNCHANGED notWidgetVars

\* The MessageHandler is dropped: state_tx closes, no further handle() call
DropHandler ==
    /\ state_tx
    /\ state_tx' = FALSE
    /\ UNCHANGED <<widgetResponses, init_on_load, connected, incoming, state_rx, capabilities, pc,
                   request, initCaller, desired, transport, clientCalls, dispatched,
                   handled, initResults>>
    /\ UNCHANGED notWidgetVars

\* The widget goes away: replies and outgoing requests fail from now on
Disconnect ==
    /\ connected
    /\ connected' = FALSE
    /\ UNCHANGED <<widgetResponses, init_on_load, state_tx, incoming, state_rx, capabilities, pc,
                   request, initCaller, desired, transport, clientCalls, dispatched,
                   handled, initResults>>
    /\ UNCHANGED notWidgetVars

----------------------------------------------------------------------------
(* state.rs: the task running State::listen *)

\* State::listen up to its first await
ListenStart ==
    /\ pc = "start"
    /\ IF InitializeOnStart(init_on_load)
       THEN InitializeCall("listen", None, transport)
       ELSE /\ pc' = "recv"
            /\ UNCHANGED <<transport, initCaller, request, handled, initResults, desired>>
    /\ UNCHANGED <<widgetResponses, init_on_load, connected, state_tx, incoming, state_rx, capabilities,
                   clientCalls, dispatched>>
    /\ UNCHANGED notWidgetVars

\* State::initialize: the widget answers the Capabilities request (or is gone)
InitializeCapabilitiesResponse ==
    /\ pc = "init_capabilities"
    /\ \/ /\ connected
          /\ \E d \in PermissionsSet :
                /\ desired' = d
                /\ pc' = "init_acquire"
                /\ clientCalls' = Append(clientCalls, ClientCall("initialize", 0))
                /\ widgetResponses' = Append(widgetResponses, WidgetResponse("Capabilities", Ok(d)))
                /\ UNCHANGED <<transport, initCaller, request, handled, initResults>>
       \/ /\ connected
          /\ InitializeReturn(initCaller, request, Err(ErrWidgetErrorReply("error")), transport)
          /\ widgetResponses' = Append(widgetResponses, WidgetResponse("Capabilities", Err("error")))
          /\ UNCHANGED clientCalls
       \/ /\ ~connected
          /\ InitializeReturn(initCaller, request, Err(ErrWidgetDisconnected), transport)
          /\ UNCHANGED <<clientCalls, widgetResponses>>
    /\ UNCHANGED <<init_on_load, connected, state_tx, incoming, state_rx, capabilities,
                   dispatched>>
    /\ UNCHANGED notWidgetVars

\* State::initialize: MatrixDriver::initialize returns the capabilities; they are
\* stored and the CapabilitiesUpdated request is sent
InitializeAcquired ==
    /\ pc = "init_acquire"
    /\ \E approved \in AcquirePermissions(desired) :
        LET capabilities_ == CapabilitiesOf(approved)
            update == CapabilitiesUpdatedRequest(desired, capabilities_)
        IN  /\ capabilities' = capabilities_
            /\ IF connected
               THEN /\ transport' = Append(transport, Outgoing("CapabilitiesUpdated", update))
                    /\ pc' = "init_update"
                    /\ UNCHANGED <<initCaller, request, handled, initResults, desired>>
               ELSE InitializeReturn(initCaller, request, Err(ErrWidgetDisconnected), transport)
    /\ UNCHANGED <<widgetResponses, init_on_load, connected, state_tx, incoming, state_rx, clientCalls,
                   dispatched>>
    /\ UNCHANGED notWidgetVars

\* State::initialize: the widget answers the CapabilitiesUpdated request
InitializeUpdateResponse ==
    /\ pc = "init_update"
    /\ \E res \in {Ok(Empty), Err(ErrWidgetErrorReply("error")), Err(ErrWidgetDisconnected)} :
        /\ connected <=> (res.ok \/ res.err.tag = "WidgetErrorReply")
        /\ widgetResponses' = IF connected
                              THEN Append(widgetResponses, WidgetResponse("CapabilitiesUpdated", res))
                              ELSE widgetResponses
        /\ InitializeReturn(initCaller, request, res, transport)
    /\ UNCHANGED <<init_on_load, connected, state_tx, incoming, state_rx, capabilities,
                   clientCalls, dispatched>>
    /\ UNCHANGED notWidgetVars

\* OpenIdStatus returned by MatrixDriver::get_openid, and the decisions
OpenIdDecisions == {"allowed", "blocked"}
OpenIdStatuses == {[status |-> "Resolved", decision |-> d] : d \in OpenIdDecisions}
                     \cup {[status |-> "Pending", decision |-> "pending"]}

\* OpenIdResponse sent for a status: the decision, or Pending
OpenIdResponse(status) == [state |-> status.decision]

\* Mutant of Dispatch: the loop takes the next request while State::handle still
\* awaits the OpenID handle of the previous one
Dispatch_Concurrent ==
    /\ pc \in {"recv", "openid_handle"}
    /\ state_rx # <<>>
    /\ LET req == Head(state_rx) IN
        /\ state_rx' = Tail(state_rx)
        /\ dispatched' = Append(dispatched,
                [header |-> req.with.header, variant |-> req.variant,
                 negotiated |-> capabilities # None, connected |-> connected])
        /\ CASE req.variant = "GetSupportedApiVersion" ->
                    /\ AfterHandle(req, Ok(Empty),
                          ReplyNotAwaited(transport, map(req, Ok(SupportedApiVersionsResponse_new))))
                    /\ UNCHANGED <<clientCalls, initCaller, initResults, desired>>
             [] req.variant = "ContentLoaded" ->
                    LET d == ContentLoadedDecision(init_on_load, capabilities)
                        tr == Reply(transport, map(req, d.response))
                    IN  /\ IF d.negotiate
                           THEN InitializeCall("handle", req, tr)
                           ELSE /\ AfterHandle(req, Ok(Empty), tr)
                                /\ UNCHANGED <<initCaller, initResults, desired>>
                        /\ UNCHANGED clientCalls
             [] req.variant = "GetOpenId" ->
                    /\ clientCalls' = Append(clientCalls, ClientCall("get_openid", req.with.header))
                    /\ \E status \in OpenIdStatuses :
                        LET tr == ReplyNotAwaited(transport, map(req, Ok(OpenIdResponse(status))))
                        IN  IF status.status = "Pending"
                            THEN /\ pc' = "openid_handle"
                                 /\ request' = req
                                 /\ transport' = tr
                                 /\ UNCHANGED handled
                            ELSE AfterHandle(req, Ok(Empty), tr)
                    /\ UNCHANGED <<initCaller, initResults, desired>>
             [] req.variant = "ReadEvent" ->
                    /\ IF ReaderOf(capabilities).ok
                       THEN /\ clientCalls' = Append(clientCalls, ClientCall("read", req.with.header))
                            /\ pc' = "read"
                            /\ request' = req
                            /\ UNCHANGED <<transport, handled>>
                       ELSE /\ AfterHandle(req, ReaderOf(capabilities), transport)
                            /\ UNCHANGED clientCalls
                    /\ UNCHANGED <<initCaller, initResults, desired>>
             [] req.variant = "SendEvent" ->
                    /\ IF SenderOf(capabilities).ok
                       THEN /\ clientCalls' = Append(clientCalls, ClientCall("send", req.with.header))
                            /\ pc' = "send"
                            /\ request' = req
                            /\ UNCHANGED <<transport, handled>>
                       ELSE /\ AfterHandle(req, SenderOf(capabilities), transport)
                            /\ UNCHANGED clientCalls
                    /\ UNCHANGED <<initCaller, initResults, desired>>
    /\ UNCHANGED <<widgetResponses, init_on_load, connected, state_tx, incoming, capabilities>>
    /\ UNCHANGED notWidgetVars

\* State::listen: `rx.recv()` yields the next request and State::handle runs on it
\* up to its first await on another party
Dispatch ==
    /\ pc = "recv"
    /\ state_rx # <<>>
    /\ LET req == Head(state_rx) IN
        /\ state_rx' = Tail(state_rx)
        /\ dispatched' = Append(dispatched,
                [header |-> req.with.header, variant |-> req.variant,
                 negotiated |-> capabilities # None, connected |-> connected])
        /\ CASE req.variant = "GetSupportedApiVersion" ->
                    /\ AfterHandle(req, Ok(Empty),
                          ReplyNotAwaited(transport, map(req, Ok(SupportedApiVersionsResponse_new))))
                    /\ UNCHANGED <<clientCalls, initCaller, initResults, desired>>
             [] req.variant = "ContentLoaded" ->
                    LET d == ContentLoadedDecision(init_on_load, capabilities)
                        tr == Reply(transport, map(req, d.response))
                    IN  /\ IF d.negotiate
                           THEN InitializeCall("handle", req, tr)
                           ELSE /\ AfterHandle(req, Ok(Empty), tr)
                                /\ UNCHANGED <<initCaller, initResults, desired>>
                        /\ UNCHANGED clientCalls
             [] req.variant = "GetOpenId" ->
                    /\ clientCalls' = Append(clientCalls, ClientCall("get_openid", req.with.header))
                    /\ \E status \in OpenIdStatuses :
                        LET tr == ReplyNotAwaited(transport, map(req, Ok(OpenIdResponse(status))))
                        IN  IF status.status = "Pending"
                            THEN /\ pc' = "openid_handle"
                                 /\ request' = req
                                 /\ transport' = tr
                                 /\ UNCHANGED handled
                            ELSE AfterHandle(req, Ok(Empty), tr)
                    /\ UNCHANGED <<initCaller, initResults, desired>>
             [] req.variant = "ReadEvent" ->
                    /\ IF ReaderOf(capabilities).ok
                       THEN /\ clientCalls' = Append(clientCalls, ClientCall("read", req.with.header))
                            /\ pc' = "read"
                            /\ request' = req
                            /\ UNCHANGED <<transport, handled>>
                       ELSE /\ AfterHandle(req, ReaderOf(capabilities), transport)
                            /\ UNCHANGED clientCalls
                    /\ UNCHANGED <<initCaller, initResults, desired>>
             [] req.variant = "SendEvent" ->
                    /\ IF SenderOf(capabilities).ok
                       THEN /\ clientCalls' = Append(clientCalls, ClientCall("send", req.with.header))
                            /\ pc' = "send"
                            /\ request' = req
                            /\ UNCHANGED <<transport, handled>>
                       ELSE /\ AfterHandle(req, SenderOf(capabilities), transport)
                            /\ UNCHANGED clientCalls
                    /\ UNCHANGED <<initCaller, initResults, desired>>
    /\ UNCHANGED <<widgetResponses, init_on_load, connected, state_tx, incoming, capabilities>>
    /\ UNCHANGED notWidgetVars

\* State::handle, GetOpenId: the pending handle resolves (the update is sent to
\* the widget) or is dropped
OpenIdHandle ==
    /\ pc = "openid_handle"
    /\ \/ \E decision \in OpenIdDecisions :
            IF connected
            THEN /\ transport' = Append(transport,
                        Outgoing("OpenIdCredentialsUpdate", [state |-> decision]))
                 /\ pc' = "openid_update"
                 /\ UNCHANGED <<request, handled>>
            ELSE AfterHandle(request, Err(ErrWidgetDisconnected), transport)
       \/ AfterHandle(request, Err(ErrWidgetDisconnected), transport)
    /\ UNCHANGED <<widgetResponses, init_on_load, connected, state_tx, incoming, state_rx, capabilities,
                   initCaller, desired, clientCalls, dispatched, initResults>>
    /\ UNCHANGED notWidgetVars

\* State::handle, GetOpenId: the widget answers the OpenIdCredentialsUpdate
OpenIdUpdateResponse ==
    /\ pc = "openid_update"
    /\ \E res \in {Ok(Empty), Err(ErrWidgetErrorReply("error")), Err(ErrWidgetDisconnected)} :
        /\ connected <=> (res.ok \/ res.err.tag = "WidgetErrorReply")
        /\ widgetResponses' = IF connected
                              THEN Append(widgetResponses, WidgetResponse("OpenIdCredentialsUpdate", res))
                              ELSE widgetResponses
        /\ AfterHandle(request, res, transport)
    /\ UNCHANGED <<init_on_load, connected, state_tx, incoming, state_rx, capabilities,
                   initCaller, desired, clientCalls, dispatched, initResults>>
    /\ UNCHANGED notWidgetVars

\* Outcome of a chat-client read / send future
ClientResults(op) == {Ok([done |-> op]), Err(ErrCustom("client error"))}

\* State::handle, ReadEvent: `fut.await?` and the reply
ReadEventDone ==
    /\ pc = "read"
    /\ \E res \in ClientResults("read") :
        IF res.ok
        THEN AfterHandle(request, Ok(Empty), Reply(transport, map(request, Ok(res.val))))
        ELSE AfterHandle(request, res, transport)
    /\ UNCHANGED <<widgetResponses, init_on_load, connected, state_tx, incoming, state_rx, capabilities,
                   initCaller, desired, clientCalls, dispatched, initResults>>
    /\ UNCHANGED notWidgetVars

\* State::handle, SendEvent: `fut.await?` and the reply
SendEventDone ==
    /\ pc = "send"
    /\ \E res \in ClientResults("send") :
        IF res.ok
        THEN AfterHandle(request, Ok(Empty), Reply(transport, map(request, Ok(res.val))))
        ELSE AfterHandle(request, res, transport)
    /\ UNCHANGED <<widgetResponses, init_on_load, connected, state_tx, incoming, state_rx, capabilities,
                   initCaller, desired, clientCalls, dispatched, initResults>>
    /\ UNCHANGED notWidgetVars

\* State::listen: `rx.recv()` yields None once the channel is closed and empty
ListenEnd ==
    /\ pc = "recv"
    /\ state_rx = <<>>
    /\ ~state_tx
    /\ pc' = "done"
    /\ UNCHANGED <<widgetResponses, init_on_load, connected, state_tx, incoming, state_rx, capabilities,
                   request, initCaller, desired, transport, clientCalls, dispatched,
                   handled, initResults>>
    /\ UNCHANGED notWidgetVars

Next ==
    \/ Handle
    \/ DropHandler
    \/ Disconnect
    \/ ListenStart
    \/ InitializeCapabilitiesResponse
    \/ InitializeAcquired
    \/ InitializeUpdateResponse
    \/ Dispatch
    \/ OpenIdHandle
    \/ OpenIdUpdateResponse
    \/ ReadEventDone
    \/ SendEventDone
    \/ ListenEnd

Spec == Init /\ [][Next]_vars

----------------------------------------------------------------------------
(* The permissions encoding on its own: a Permissions value or a list of    *)
(* strings is given, and serialization and parsing are applied in turn.     *)
(* No widget session runs.                                                  *)

PermissionsInit ==
    /\ init_on_load = FALSE
    /\ connected = TRUE
    /\ state_tx = TRUE
    /\ incoming = <<>>
    /\ state_rx = <<>>
    /\ capabilities = None
    /\ pc = "start"
    /\ request = None
    /\ initCaller = None
    /\ desired = None
    /\ transport = <<>>
    /\ clientCalls = <<>>
    /\ dispatched = <<>>
    /\ handled = <<>>
    /\ initResults = <<>>
    /\ widgetResponses = <<>>
    /\ FilterIdle
    /\ MutexIdle
    /\ BuilderIdle
    /\ perm_log = <<>>
    /\ \/ /\ perm_pc = "value"
          /\ permissions \in PermissionValues
          /\ wire = <<>>
       \/ /\ perm_pc = "strings"
          /\ wire \in WireLists
          /\ permissions = Permissions_default

\* impl Serialize for Permissions, applied to the current value
SerializePermissions ==
    /\ perm_pc = "value"
    /\ Len(perm_log) < MaxSteps
    /\ wire' = Permissions_serialize(permissions)
    /\ perm_pc' = "strings"
    /\ perm_log' = Append(perm_log,
            [op |-> "serialize", value |-> permissions, strings |-> wire',
             seq_len |-> seq_len(permissions)])
    /\ UNCHANGED permissions
    /\ UNCHANGED notPermVars

\* impl Deserialize for Permissions, applied to the current list of strings
DeserializePermissions ==
    /\ perm_pc = "strings"
    /\ Len(perm_log) < MaxSteps
    /\ permissions' = Permissions_deserialize(wire)
    /\ perm_pc' = "value"
    /\ perm_log' = Append(perm_log,
            [op |-> "deserialize", value |-> permissions', strings |-> wire])
    /\ UNCHANGED wire
    /\ UNCHANGED notPermVars

PermissionsNext ==
    \/ SerializePermissions
    \/ DeserializePermissions

PermissionsSpec == PermissionsInit /\ [][PermissionsNext]_vars

----------------------------------------------------------------------------
(* filter.rs: matching an event against an EventFilter.  A SendEventRequest  *)
(* is given, MatrixEventFilterInput::from_send_event_request converts it and *)
(* EventFilter::matches is applied to the result.                           *)

\* ruma's TimelineEventType: a value is identified by its event type string
TimelineEventType(s) == [timeline |-> s]

\* TimelineEventType::RoomMessage
TimelineEventType_RoomMessage == TimelineEventType("m.room.message")

\* TimelineEventType::from(MessageLikeEventType / StateEventType): the type with
\* the same event type string
TimelineEventType_from(event_type) == TimelineEventType(event_type)

\* JSON values (serde_json::Value)
JsonNull == [json |-> "null"]
JsonNumber(n) == [json |-> "number", n |-> n]
JsonString(str) == [json |-> "string", s |-> str]
JsonArray(items) == [json |-> "array", items |-> items]
\* an object, of which only the member "msgtype" (None: absent) is of interest
JsonObject(msgtype) == [json |-> "object", msgtype |-> msgtype]

\* MatrixEventContent and its Default
MatrixEventContent(msgtype) == [msgtype |-> msgtype]
MatrixEventContent_default == MatrixEventContent(None)

\* Deserialize for Option<String>: null is None, a string is Some, the rest fails
deserialize_option_string(v) ==
    IF v.json = "null" THEN Ok(None)
    ELSE IF v.json = "string" THEN Ok(Some(v.s))
    ELSE Err("invalid type")

\* serde_json::from_value::<MatrixEventContent>: the derived Deserialize of a
\* struct reads an object by member name (a missing Option member is None) and
\* an array by position (one element per field); any other value fails
from_value(content) ==
    IF content.json = "object"
    THEN IF content.msgtype = None THEN Ok(MatrixEventContent(None))
         ELSE LET m == deserialize_option_string(content.msgtype.some) IN
              IF m.ok THEN Ok(MatrixEventContent(m.val)) ELSE m
    ELSE IF content.json = "array"
    THEN IF Len(content.items) # 1 THEN Err("invalid length")
         ELSE LET m == deserialize_option_string(content.items[1]) IN
              IF m.ok THEN Ok(MatrixEventContent(m.val)) ELSE m
    ELSE Err("invalid type")

\* Result::unwrap_or_default for MatrixEventContent
unwrap_or_default(res) == IF res.ok THEN res.val ELSE MatrixEventContent_default

\* from_widget::SendEventRequest { event_type, state_key, content }
SendEventRequest(event_type, state_key, content) ==
    [event_type |-> event_type, state_key |-> state_key, content |-> content]

\* MatrixEventFilterInput::from_send_event_request
from_send_event_request(req) ==
    [event_type |-> req.event_type,
     state_key |-> req.state_key,
     content |-> unwrap_or_default(from_value(req.content))]

\* Mutant of MessageLikeEventFilter_matches: the state key is not examined
MessageLikeEventFilter_matches_AnyStateKey(filter, matrix_event_) ==
    IF filter.tag = "WithType"
    THEN matrix_event_.event_type = TimelineEventType_from(filter.event_type)
    ELSE /\ matrix_event_.event_type = TimelineEventType_RoomMessage
         /\ matrix_event_.content.msgtype = Some(filter.msgtype)

\* MessageLikeEventFilter::matches
MessageLikeEventFilter_matches(filter, matrix_event_) ==
    IF matrix_event_.state_key # None THEN FALSE
    ELSE IF filter.tag = "WithType"
    THEN matrix_event_.event_type = TimelineEventType_from(filter.event_type)
    ELSE /\ matrix_event_.event_type = TimelineEventType_RoomMessage
         /\ matrix_event_.content.msgtype = Some(filter.msgtype)

\* StateEventFilter::matches
StateEventFilter_matches(filter, matrix_event_) ==
    IF matrix_event_.state_key = None THEN FALSE
    ELSE IF filter.tag = "WithType"
    THEN matrix_event_.event_type = TimelineEventType_from(filter.event_type)
    ELSE /\ matrix_event_.event_type = TimelineEventType_from(filter.event_type)
         /\ matrix_event_.state_key.some = filter.state_key

\* EventFilter::matches
EventFilter_matches(filter, matrix_event_) ==
    IF filter.kind = "MessageLike"
    THEN MessageLikeEventFilter_matches(filter.filter, matrix_event_)
    ELSE StateEventFilter_matches(filter.filter, matrix_event_)

\* The requests given: two event types, no state key / an empty one / "a", and
\* contents that are an object with a string, no, a numeric or a null msgtype,
\* an array of one string, and a bare string
RequestEventTypes == {TimelineEventType("m.room.message"), TimelineEventType("m.room.topic")}
RequestStateKeys == {None, Some(""), Some("a")}
RequestContents ==
    {JsonObject(Some(JsonString("m.text"))), JsonObject(None),
     JsonObject(Some(JsonNumber(1))), JsonObject(Some(JsonNull)),
     JsonArray(<<JsonString("m.text")>>), JsonString("m.text")}
SendEventRequests ==
    {SendEventRequest(t, k, c) :
        t \in RequestEventTypes, k \in RequestStateKeys, c \in RequestContents}

\* The filters applied
MatchFilters ==
    {MessageLike(WithType("m.room.message")), MessageLike(WithType("m.room.topic")),
     MessageLike(RoomMessageWithMsgtype("m.text")),
     MessageLike(RoomMessageWithMsgtype("m.image")),
     State(WithType("m.room.message")), State(WithType("m.room.topic")),
     State(WithTypeAndStateKey("m.room.topic", "")),
     State(WithTypeAndStateKey("m.room.topic", "a"))}

FilterInit ==
    /\ WidgetIdle
    /\ PermIdle
    /\ MutexIdle
    /\ BuilderIdle
    /\ send_event_request \in SendEventRequests
    /\ matrix_event = None
    /\ filter_pc = "request"
    /\ filter_log = <<>>

\* MatrixEventFilterInput::from_send_event_request, applied to the request
FromSendEventRequest ==
    /\ filter_pc = "request"
    /\ matrix_event' = from_send_event_request(send_event_request)
    /\ filter_pc' = "input"
    /\ UNCHANGED <<send_event_request, filter_log>>
    /\ UNCHANGED notFilterVars

\* EventFilter::matches, applied to the input with some filter
Matches ==
    /\ filter_pc = "input"
    /\ Len(filter_log) < MaxMatches
    /\ \E filter \in MatchFilters :
        filter_log' = Append(filter_log,
            [filter |-> filter, request |-> send_event_request,
             matrix_event |-> matrix_event,
             result |-> EventFilter_matches(filter, matrix_event)])
    /\ UNCHANGED <<send_event_request, matrix_event, filter_pc>>
    /\ UNCHANGED notFilterVars

FilterNext ==
    \/ FromSendEventRequest
    \/ Matches

FilterSpec == FilterInit /\ [][FilterNext]_vars

----------------------------------------------------------------------------
(* debug.rs: DebugMutex, a tokio mutex that records where it was locked     *)
(* from and reports a lock() that has waited for 50 ms.  Each caller runs   *)
(* lock(), holds the guard and drops it; a position of lock_pc is a point   *)
(* where another thread can run.  The tokio mutex is fair: a release hands  *)
(* the mutex to the oldest waiter, and a lock future that is dropped while  *)
(* it waits leaves the queue (passing the mutex on if it was handed to it). *)

Callers == 1..MaxCallers

\* Location::caller() of a caller's call site
Location(t) == [file |-> "caller.rs", line |-> t]

\* A sequence without the entries equal to t
Without(seq, t) == SelectSeq(seq, LAMBDA x : x # t)

\* The tokio mutex passes from its owner to the oldest waiter, if any
PassOn ==
    IF waiters = <<>>
    THEN inner' = 0 /\ waiters' = waiters
    ELSE inner' = Head(waiters) /\ waiters' = Tail(waiters)

\* First poll of `self.inner.lock()` by caller t: the mutex is taken if it is
\* free (position `got`), else the caller joins the queue (position `wait`)
inner_lock(t, got, wait) ==
    IF inner = 0
    THEN /\ inner' = t
         /\ grants' = Append(grants, t)
         /\ lock_pc' = [lock_pc EXCEPT ![t] = got]
         /\ UNCHANGED waiters
    ELSE /\ waiters' = Append(waiters, t)
         /\ lock_pc' = [lock_pc EXCEPT ![t] = wait]
         /\ UNCHANGED <<inner, grants>>

\* Mutant of Diagnostic: the recorded location is not consulted
Diagnostic_NoLocation(t, record) ==
    [caller |-> t, level |-> "error",
     message |-> "locking timed out. no caller info.", location |-> None]

\* The record emitted when the deadline has elapsed: a warning naming the
\* recorded location, or an error when none is recorded
Diagnostic(t, record) ==
    IF record # None
    THEN [caller |-> t, level |-> "warn",
          message |-> "locking timed out. locked by: ", location |-> record]
    ELSE [caller |-> t, level |-> "error",
          message |-> "locking timed out. no caller info.", location |-> None]

MutexInit ==
    /\ WidgetIdle
    /\ PermIdle
    /\ FilterIdle
    /\ BuilderIdle
    /\ inner = 0
    /\ waiters = <<>>
    /\ last_locked_from = None
    /\ lock_pc = [t \in Callers |-> "idle"]
    /\ diagnostics = <<>>
    /\ lock_calls = <<>>
    /\ grants = <<>>

\* lock(): `timeout(Duration::from_millis(50), self.inner.lock())` is polled for
\* the first time
LockCall(t) ==
    /\ lock_pc[t] = "idle"
    /\ inner_lock(t, "acquired", "waiting")
    /\ lock_calls' = Append(lock_calls, t)
    /\ UNCHANGED <<last_locked_from, diagnostics>>
    /\ UNCHANGED notMutexVars

\* A waiting caller finds the mutex handed to it: `Ok(guard) => guard`, or the
\* return of the second `self.inner.lock().await`
WaitGranted(t) ==
    /\ lock_pc[t] \in {"waiting", "rewaiting"}
    /\ inner = t
    /\ lock_pc' = [lock_pc EXCEPT ![t] = "acquired"]
    /\ grants' = Append(grants, t)
    /\ UNCHANGED <<inner, waiters, last_locked_from, diagnostics, lock_calls>>
    /\ UNCHANGED notMutexVars

\* The timeout is polled after 50 ms and the mutex has not been handed to the
\* caller: `timeout(..).await` is Err(_)
DeadlineElapsed(t) ==
    /\ lock_pc[t] = "waiting"
    /\ inner # t
    /\ lock_pc' = [lock_pc EXCEPT ![t] = "elapsed"]
    /\ UNCHANGED <<inner, waiters, last_locked_from, diagnostics, lock_calls, grants>>
    /\ UNCHANGED notMutexVars

\* The timed-out future, and the pending `self.inner.lock()` in it, is dropped:
\* the caller leaves the queue, or passes the mutex on if it was handed to it
\* in the meantime
DropLockFuture(t) ==
    /\ lock_pc[t] = "elapsed"
    /\ IF inner = t
       THEN PassOn
       ELSE waiters' = Without(waiters, t) /\ UNCHANGED inner
    /\ lock_pc' = [lock_pc EXCEPT ![t] = "timed_out"]
    /\ UNCHANGED <<last_locked_from, diagnostics, lock_calls, grants>>
    /\ UNCHANGED notMutexVars

\* The Err(_) arm reads last_locked_from and emits warn! or error!
Diagnose(t) ==
    /\ lock_pc[t] = "timed_out"
    /\ diagnostics' = Append(diagnostics, Diagnostic(t, last_locked_from))
    /\ lock_pc' = [lock_pc EXCEPT ![t] = "relock"]
    /\ UNCHANGED <<inner, waiters, last_locked_from, lock_calls, grants>>
    /\ UNCHANGED notMutexVars

\* Mutant of Relock: the Err(_) arm goes on without the mutex
Relock_NoWait(t) ==
    /\ lock_pc[t] = "relock"
    /\ lock_pc' = [lock_pc EXCEPT ![t] = "acquired"]
    /\ grants' = Append(grants, t)
    /\ UNCHANGED <<inner, waiters, last_locked_from, diagnostics, lock_calls>>
    /\ UNCHANGED notMutexVars

\* The Err(_) arm: `self.inner.lock().await` is polled for the first time
Relock(t) ==
    /\ lock_pc[t] = "relock"
    /\ inner_lock(t, "acquired", "rewaiting")
    /\ UNCHANGED <<last_locked_from, diagnostics, lock_calls>>
    /\ UNCHANGED notMutexVars

\* Mutant of SetHolder: the guard is returned without recording the caller
SetHolder_NotRecorded(t) ==
    /\ lock_pc[t] = "acquired"
    /\ last_locked_from' = last_locked_from
    /\ lock_pc' = [lock_pc EXCEPT ![t] = "holding"]
    /\ UNCHANGED <<inner, waiters, diagnostics, lock_calls, grants>>
    /\ UNCHANGED notMutexVars

\* `*self.last_locked_from.lock().unwrap() = Some(caller)` and the
\* DebugMutexGuard is returned
SetHolder(t) ==
    /\ lock_pc[t] = "acquired"
    /\ last_locked_from' = Some(Location(t))
    /\ lock_pc' = [lock_pc EXCEPT ![t] = "holding"]
    /\ UNCHANGED <<inner, waiters, diagnostics, lock_calls, grants>>
    /\ UNCHANGED notMutexVars

\* Drop for DebugMutexGuard: the record is cleared; the fields of the guard are
\* dropped afterwards
ClearHolder(t) ==
    /\ lock_pc[t] = "holding"
    /\ last_locked_from' = None
    /\ lock_pc' = [lock_pc EXCEPT ![t] = "releasing"]
    /\ UNCHANGED <<inner, waiters, diagnostics, lock_calls, grants>>
    /\ UNCHANGED notMutexVars

\* The field `inner` of the guard, the tokio MutexGuard, is dropped
Release(t) ==
    /\ lock_pc[t] = "releasing"
    /\ PassOn
    /\ lock_pc' = [lock_pc EXCEPT ![t] = "done"]
    /\ UNCHANGED <<last_locked_from, diagnostics, lock_calls, grants>>
    /\ UNCHANGED notMutexVars

MutexNext ==
    \E t \in Callers :
        \/ LockCall(t)
        \/ WaitGranted(t)
        \/ DeadlineElapsed(t)
        \/ DropLockFuture(t)
        \/ Diagnose(t)
        \/ Relock(t)
        \/ SetHolder(t)
        \/ ClearHolder(t)
        \/ Release(t)

MutexSpec == MutexInit /\ [][MutexNext]_vars

\* The same under a fair scheduler: a caller that can take a step other than
\* calling lock() or timing out eventually takes it (every holder releases)
MutexFairSpec ==
    MutexSpec /\ \A t \in Callers :
        WF_vars(WaitGranted(t) \/ DropLockFuture(t) \/ Diagnose(t) \/ Relock(t)
                \/ SetHolder(t) \/ ClearHolder(t) \/ Release(t))

----------------------------------------------------------------------------
(* event_builder/mod.rs: SyncResponseBuilder.  Every method locks the inner  *)
(* state for its whole body, so each call is one action.                    *)

RoomIds == {"!a:localhost", "!b:localhost"}

\* The `inner` of a JoinedRoomBuilder / InvitedRoomBuilder / LeftRoomBuilder
JoinedRoom == [update |-> "JoinedRoom"]
InvitedRoom == [update |-> "InvitedRoom"]
LeftRoom == [update |-> "LeftRoom"]

\* HashMap::new, HashMap::remove and HashMap::insert
HashMap_new == <<>>
remove(rooms, key) == [k \in (DOMAIN rooms) \ {key} |-> rooms[k]]
insert(rooms, key, value) ==
    [k \in (DOMAIN rooms) \cup {key} |-> IF k = key THEN value ELSE rooms[k]]

\* SyncResponseBuilderInner::generate_sync_token: the fixed prefix followed by
\* the counter
generate_sync_token(counter) ==
    [prefix |-> "t392-516_47314_0_7_1_1_1_11444_", batch |-> counter]

\* The parts of the body of build_json_sync_response that depend on the builder
SyncBody(next_batch) ==
    [next_batch |-> next_batch,
     rooms |-> [invite |-> invited_rooms, join |-> joined_rooms, leave |-> left_rooms],
     presence |-> [events |-> presence],
     account_data |-> [events |-> account_data]]

\* The events given to the builder, singly and in bulk
PresenceEvents == {"Presence"}
PresenceBulks == {<<"Presence", "Presence">>}
GlobalAccountDataEvents == {"Direct"}
GlobalAccountDataBulks == {<<"PushRules", "Tags">>}

\* SyncResponseBuilder::new
BuilderInit ==
    /\ WidgetIdle
    /\ PermIdle
    /\ FilterIdle
    /\ MutexIdle
    /\ joined_rooms = HashMap_new
    /\ invited_rooms = HashMap_new
    /\ left_rooms = HashMap_new
    /\ presence = <<>>
    /\ account_data = <<>>
    /\ batch_counter = 0
    /\ room_adds = [r \in RoomIds |-> <<>>]
    /\ responses = <<>>
    /\ builder_calls = 0

\* One more call is made on the builder
BuilderCall ==
    /\ builder_calls < MaxCalls
    /\ builder_calls' = builder_calls + 1
    /\ UNCHANGED notBuilderVars

\* Mutant of add_joined_room: the room is not removed from left_rooms
add_joined_room_KeepsLeft(room_id) ==
    /\ BuilderCall
    /\ invited_rooms' = remove(invited_rooms, room_id)
    /\ left_rooms' = left_rooms
    /\ joined_rooms' = insert(joined_rooms, room_id, JoinedRoom)
    /\ room_adds' = [room_adds EXCEPT ![room_id] = Append(@, "joined")]
    /\ UNCHANGED <<presence, account_data, batch_counter, responses>>

\* SyncResponseBuilder::add_joined_room
add_joined_room(room_id) ==
    /\ BuilderCall
    /\ invited_rooms' = remove(invited_rooms, room_id)
    /\ left_rooms' = remove(left_rooms, room_id)
    /\ joined_rooms' = insert(joined_rooms, room_id, JoinedRoom)
    /\ room_adds' = [room_adds EXCEPT ![room_id] = Append(@, "joined")]
    /\ UNCHANGED <<presence, account_data, batch_counter, responses>>

\* SyncResponseBuilder::add_invited_room
add_invited_room(room_id) ==
    /\ BuilderCall
    /\ joined_rooms' = remove(joined_rooms, room_id)
    /\ left_rooms' = remove(left_rooms, room_id)
    /\ invited_rooms' = insert(invited_rooms, room_id, InvitedRoom)
    /\ room_adds' = [room_adds EXCEPT ![room_id] = Append(@, "invited")]
    /\ UNCHANGED <<presence, account_data, batch_counter, responses>>

\* SyncResponseBuilder::add_left_room
add_left_room(room_id) ==
    /\ BuilderCall
    /\ joined_rooms' = remove(joined_rooms, room_id)
    /\ invited_rooms' = remove(invited_rooms, room_id)
    /\ left_rooms' = insert(left_rooms, room_id, LeftRoom)
    /\ room_adds' = [room_adds EXCEPT ![room_id] = Append(@, "left")]
    /\ UNCHANGED <<presence, account_data, batch_counter, responses>>

\* SyncResponseBuilder::add_presence_event and add_presence_bulk
add_presence ==
    /\ BuilderCall
    /\ \/ \E event \in PresenceEvents : presence' = Append(presence, event)
       \/ \E events \in PresenceBulks : presence' = presence \o events
    /\ UNCHANGED <<joined_rooms, invited_rooms, left_rooms, account_data,
                   batch_counter, room_adds, responses>>

\* SyncResponseBuilder::add_global_account_data_event and
\* add_global_account_data_bulk
add_global_account_data ==
    /\ BuilderCall
    /\ \/ \E event \in GlobalAccountDataEvents :
            account_data' = Append(account_data, event)
       \/ \E events \in GlobalAccountDataBulks :
            account_data' = account_data \o events
    /\ UNCHANGED <<joined_rooms, invited_rooms, left_rooms, presence,
                   batch_counter, room_adds, responses>>

\* SyncResponseBuilderInner::clear: the counter is kept
Inner_clear ==
    /\ account_data' = <<>>
    /\ invited_rooms' = HashMap_new
    /\ joined_rooms' = HashMap_new
    /\ left_rooms' = HashMap_new
    /\ presence' = <<>>
    /\ room_adds' = [r \in RoomIds |->
            IF room_adds[r] = <<>> \/ room_adds[r][Len(room_adds[r])] = "cleared"
            THEN room_adds[r] ELSE Append(room_adds[r], "cleared")]

\* SyncResponseBuilder::build_json_sync_response (and build_sync_response, its
\* typed form)
build_json_sync_response ==
    /\ BuilderCall
    /\ batch_counter' = batch_counter + 1
    /\ responses' = Append(responses, SyncBody(generate_sync_token(batch_counter')))
    /\ Inner_clear

\* SyncResponseBuilder::clear
clear ==
    /\ BuilderCall
    /\ Inner_clear
    /\ UNCHANGED <<batch_counter, responses>>

BuilderNext ==
    \/ \E room_id \in RoomIds : add_joined_room(room_id)
    \/ \E room_id \in RoomIds : add_invited_room(room_id)
    \/ \E room_id \in RoomIds : add_left_room(room_id)
    \/ add_presence
    \/ add_global_account_data
    \/ build_json_sync_response
    \/ clear

BuilderSpec == BuilderInit /\ [][BuilderNext]_vars

----------------------------------------------------------------------------
(* Observations used by the properties *)

IsResponse(m) == m.type = "response"
IsOutgoing(m, action) == m.type = "request" /\ m.action = action

\* The responses emitted on the transport for the request with header h, in order
Replies(h) == SelectSeq(transport, LAMBDA m : IsResponse(m) /\ m.header = h)

Headers == 1..Len(incoming)

\* MessageHandler::handle returned Ok for the message with header h
Accepted(h) == incoming[h].ret.ok

\* The handling of request h has ended and the widget was connected at that time:
\* on the fast path when handle() returned Ok, otherwise when the loop iteration
\* of State::listen for h ended
Completed(h) ==
    \/ incoming[h].action.variant = "GetSupportedApiVersion" /\ Accepted(h)
    \/ \E i \in 1..Len(handled) : handled[i].header = h /\ handled[i].connected

\* Number of entries of a sequence among its first n that satisfy Test
CountUpTo(seq, n, Test(_)) == Cardinality({i \in 1..n : Test(seq[i])})

Last(seq) == seq[Len(seq)]

----------------------------------------------------------------------------
(* Properties *)

\* C1: every request accepted by MessageHandler::handle whose handling ended while
\* the widget was connected has exactly one reply on the transport.
C1_ExactlyOneReply ==
    \A h \in Headers : (Accepted(h) /\ Completed(h)) => Len(Replies(h)) = 1

\* C2: no request header receives more than one reply, whichever of the fast
\* path, State::handle and the failure path of State::listen produced them.
C2_AtMostOneReply ==
    \A h \in Headers : Len(Replies(h)) <= 1

\* C3: every response on the transport carries the header of an incoming request
\* that became a typed request, and the action variant of that request; responses
\* built by map (success) and by fail (error) alike.
C3_ResponseEchoesHeader ==
    \A i \in 1..Len(transport) :
        IsResponse(transport[i]) =>
            /\ transport[i].header \in Headers
            /\ incoming[transport[i].header].action =
                    [variant |-> transport[i].action, kind |-> "Request"]
            /\ \/ transport[i].action = "GetSupportedApiVersion"
               \/ \E k \in 1..Len(dispatched) : dispatched[k].header = transport[i].header

\* C3 witness: a success response and a failed response, for different requests
C3_Witness ==
    \E i, j \in 1..Len(transport) :
        /\ IsResponse(transport[i]) /\ transport[i].ok /\ transport[i].header = 2
        /\ IsResponse(transport[j]) /\ ~transport[j].ok /\ transport[j].header = 1

\* C4: a SendEvent or ReadEvent dispatched while capabilities are None never
\* reaches the chat client, never gets a success reply, and is answered with the
\* error "Capabilities have not been negotiated" (sent iff the widget is still
\* connected).
C4_CapabilityGate ==
    \A k \in 1..Len(dispatched) :
        LET d == dispatched[k] IN
        (d.variant \in {"SendEvent", "ReadEvent"} /\ ~d.negotiated) =>
            /\ \A c \in 1..Len(clientCalls) : clientCalls[c].header # d.header
            /\ Replies(d.header) =
                    IF d.connected
                    THEN <<[type |-> "response", header |-> d.header, action |-> d.variant,
                            ok |-> FALSE, val |-> None,
                            err |-> "Capabilities have not been negotiated"]>>
                    ELSE <<>>

\* C4 witness: such a request was dispatched and answered
C4_Witness ==
    \E k \in 1..Len(dispatched) :
        /\ dispatched[k].variant = "SendEvent"
        /\ ~dispatched[k].negotiated
        /\ Len(Replies(dispatched[k].header)) = 1

RequestOps == {"get_openid", "read", "send"}

\* C6 (as claimed): no get_openid, read or send is invoked on the chat client
\* before capabilities have been negotiated.
C6_NoClientCallBeforeNegotiation ==
    \A c \in 1..Len(clientCalls) :
        clientCalls[c].op \in RequestOps => clientCalls[c].negotiated

\* C6 (amended): read and send are never invoked while capabilities are None; with
\* init_on_load = false no get_openid, read or send is invoked before initialize()
\* has returned Ok. (With init_on_load = true get_openid is not gated.)
C6_ReadSendAfterNegotiation ==
    \A c \in 1..Len(clientCalls) :
        LET e == clientCalls[c] IN
        /\ e.op \in {"read", "send"} => e.negotiated
        /\ (~init_on_load /\ e.op \in RequestOps) =>
                e.negotiated /\ initResults # <<>> /\ initResults[1].ok

\* C6 witness: get_openid and send were both invoked in a session that negotiated
\* at start
C6_Witness ==
    /\ ~init_on_load
    /\ \E c \in 1..Len(clientCalls) : clientCalls[c].op = "get_openid"
    /\ \E c \in 1..Len(clientCalls) : clientCalls[c].op = "send"

OkContentLoaded(h) ==
    [type |-> "response", header |-> h, action |-> "ContentLoaded",
     ok |-> TRUE, val |-> Empty, err |-> ""]

AlreadyLoaded(h) ==
    [type |-> "response", header |-> h, action |-> "ContentLoaded",
     ok |-> FALSE, val |-> None, err |-> "Already loaded"]

\* C7 (as claimed): with init_on_load = true, of two consecutive ContentLoaded
\* requests (handled while the widget is connected) the first is replied Ok({})
\* and the second Err("Already loaded").
C7_TwoContentLoaded ==
    (/\ init_on_load
     /\ Len(dispatched) >= 2
     /\ dispatched[1].variant = "ContentLoaded"
     /\ dispatched[2].variant = "ContentLoaded"
     /\ Completed(dispatched[1].header)
     /\ Completed(dispatched[2].header))
    => /\ Len(Replies(dispatched[1].header)) >= 1
       /\ Replies(dispatched[1].header)[1] = OkContentLoaded(dispatched[1].header)
       /\ Replies(dispatched[2].header) = <<AlreadyLoaded(dispatched[2].header)>>

\* C7 (amended): with init_on_load = true, a ContentLoaded dispatched while
\* capabilities are None is replied Ok({}) first, and a ContentLoaded dispatched
\* once capabilities are Some gets the single reply Err("Already loaded"); so the
\* second of two consecutive ContentLoaded is rejected exactly when the
\* negotiation started by the first stored capabilities. (No reply reaches a
\* widget that is disconnected when the request is dispatched.)
C7_ContentLoadedReplies ==
    init_on_load =>
        \A k \in 1..Len(dispatched) :
            LET d == dispatched[k]
                r == Replies(d.header)
            IN  d.variant = "ContentLoaded" =>
                    IF ~d.connected THEN r = <<>>
                    ELSE IF d.negotiated THEN r = <<AlreadyLoaded(d.header)>>
                    ELSE Len(r) >= 1 /\ r[1] = OkContentLoaded(d.header)

\* C7 witness: two consecutive ContentLoaded, the second rejected
C7_Witness ==
    /\ init_on_load
    /\ Len(dispatched) >= 2
    /\ dispatched[1].variant = "ContentLoaded"
    /\ dispatched[2].variant = "ContentLoaded"
    /\ Replies(dispatched[1].header) = <<OkContentLoaded(dispatched[1].header)>>
    /\ Replies(dispatched[2].header) = <<AlreadyLoaded(dispatched[2].header)>>

\* C8: with init_on_load = false no request is dispatched before initialize() has
\* returned Ok, and after a failed initialize() the task has ended without
\* dispatching anything.
C8_InitializeBeforeDispatch ==
    ~init_on_load =>
        /\ dispatched # <<>> => (initResults # <<>> /\ initResults[1].ok)
        /\ (initResults # <<>> /\ ~initResults[1].ok) =>
                (pc = "done" /\ dispatched = <<>> /\ handled = <<>>)
        /\ pc \in {"start", "init_capabilities", "init_acquire", "init_update"} =>
                dispatched = <<>>

\* C8 witness: initialization failed while a request was queued; it stays queued
C8_Witness ==
    /\ ~init_on_load
    /\ initResults # <<>>
    /\ ~initResults[1].ok
    /\ state_rx # <<>>
    /\ pc = "done"

IsCapabilitiesRequest(m) == IsOutgoing(m, "Capabilities")
IsOkContentLoaded(m) == IsResponse(m) /\ m.action = "ContentLoaded" /\ m.ok
IsFreshContentLoaded(d) == d.variant = "ContentLoaded" /\ ~d.negotiated /\ d.connected

\* C9: with init_on_load = true every outgoing Capabilities request follows the
\* dispatch of a ContentLoaded that found capabilities None, and that request's
\* Ok({}) reply is on the transport before it.
C9_CapabilitiesAfterContentLoaded ==
    init_on_load =>
        \A i \in 1..Len(transport) :
            IsCapabilitiesRequest(transport[i]) =>
                /\ CountUpTo(transport, i, IsCapabilitiesRequest)
                        <= CountUpTo(transport, i, IsOkContentLoaded)
                /\ CountUpTo(transport, i, IsCapabilitiesRequest)
                        <= CountUpTo(dispatched, Len(dispatched), IsFreshContentLoaded)
                /\ \E j \in 1..(i - 1) :
                        /\ IsOkContentLoaded(transport[j])
                        /\ \A l \in (j + 1)..(i - 1) : ~IsCapabilitiesRequest(transport[l])

\* C9 witness: negotiation was started by a ContentLoaded
C9_Witness ==
    /\ init_on_load
    /\ \E i \in 1..Len(transport) : IsCapabilitiesRequest(transport[i])

IsInitializeCall(e) == e.op = "initialize"
IsCapabilitiesOk(w) == w.to = "Capabilities" /\ w.ok
IsRequest(m) == m.type = "request"

\* The last outgoing request on the transport
LastOutgoing ==
    transport[CHOOSE i \in 1..Len(transport) :
                /\ IsRequest(transport[i])
                /\ \A j \in (i + 1)..Len(transport) : ~IsRequest(transport[j])]

C10_Order ==
    /\ CountUpTo(clientCalls, Len(clientCalls), IsInitializeCall)
            = CountUpTo(widgetResponses, Len(widgetResponses), IsCapabilitiesOk)
    /\ CountUpTo(widgetResponses, Len(widgetResponses), IsCapabilitiesOk)
            <= CountUpTo(transport, Len(transport), IsCapabilitiesRequest)
    /\ pc = "init_capabilities" => LastOutgoing = Outgoing("Capabilities", Empty)
    /\ pc = "init_acquire" =>
            /\ desired \in PermissionsSet
            /\ Last(clientCalls).op = "initialize"
            /\ Last(widgetResponses) = WidgetResponse("Capabilities", Ok(desired))
    /\ \A i \in 1..Len(transport) :
            IsOutgoing(transport[i], "CapabilitiesUpdated") =>
                /\ capabilities # None
                /\ transport[i].val.approved = PermissionsFrom(capabilities)
    /\ pc = "init_update" =>
            LastOutgoing = Outgoing("CapabilitiesUpdated",
                [requested |-> desired, approved |-> PermissionsFrom(capabilities)])

C10_ErrorReply ==
    (/\ Len(widgetResponses') = Len(widgetResponses) + 1
     /\ ~Last(widgetResponses').ok
     /\ Last(widgetResponses').to \in {"Capabilities", "CapabilitiesUpdated"})
    => /\ Len(initResults') = Len(initResults) + 1
       /\ ~Last(initResults').ok
       /\ Last(initResults').err.tag = "WidgetErrorReply"

\* C10: negotiation is ordered: the permissions decision (MatrixDriver::initialize)
\* is requested only once the widget has answered the Capabilities request;
\* capabilities are stored before CapabilitiesUpdated is sent, which carries
\* requested = the widget's desired set and approved = the stored capabilities;
\* an error reply of the widget to either request makes initialize() return
\* WidgetErrorReply.
C10_NegotiationOrder == [](C10_Order) /\ [][C10_ErrorReply]_vars

\* C10 witness: CapabilitiesUpdated is awaiting its answer and the provider
\* approved less than the widget requested
C10_Witness ==
    /\ pc = "init_update"
    /\ desired # PermissionsFrom(capabilities)

\* Number of times the permissions decision was requested from the chat client:
\* MatrixDriver::initialize, which asks PermissionsProvider::acquire_permissions
AcquireCount == CountUpTo(clientCalls, Len(clientCalls), IsInitializeCall)

\* C11 (as claimed): in a session whose task has ended with the widget still
\* connected, the permissions provider was asked exactly once.
C11_AcquireExactlyOnce ==
    (pc = "done" /\ connected) => AcquireCount = 1

\* C11 (amended): the permissions provider is asked at most once per session, and
\* exactly once in the sessions that store capabilities: it has been asked iff
\* capabilities are stored or the task is awaiting its decision.
C11_AcquireAtMostOnce ==
    /\ AcquireCount <= 1
    /\ AcquireCount = 1 <=> (capabilities # None \/ pc = "init_acquire")

\* C11 witness: a first negotiation failed at the Capabilities request, a second
\* one (started by a further ContentLoaded) asked the provider and succeeded
C11_Witness ==
    /\ init_on_load
    /\ Len(initResults) = 2
    /\ ~initResults[1].ok
    /\ initResults[2].ok
    /\ AcquireCount = 1

\* The failed response to request d with the message msg
FailedReply(d, msg) ==
    [type |-> "response", header |-> d.header, action |-> d.variant,
     ok |-> FALSE, val |-> None, err |-> msg]

\* C12: a SendEvent dispatched when capabilities are set but hold no sender is
\* answered Err("No permissions to send events") and no send reaches the chat
\* client; a ReadEvent without a reader is answered Err("No permissions to read
\* events") and no read is issued. (The reply is sent iff the widget is connected.)
C12_MissingHandle ==
    \A k \in 1..Len(dispatched) :
        LET d == dispatched[k]
            NoCall == \A c \in 1..Len(clientCalls) : clientCalls[c].header # d.header
        IN  /\ (d.variant = "SendEvent" /\ d.negotiated /\ ~capabilities.sender) =>
                /\ NoCall
                /\ Replies(d.header) =
                        IF d.connected
                        THEN <<FailedReply(d, "No permissions to send events")>>
                        ELSE <<>>
            /\ (d.variant = "ReadEvent" /\ d.negotiated /\ ~capabilities.reader) =>
                /\ NoCall
                /\ Replies(d.header) =
                        IF d.connected
                        THEN <<FailedReply(d, "No permissions to read events")>>
                        ELSE <<>>

\* C12 witness: negotiation approved a read filter only, and a SendEvent was
\* dispatched and answered afterwards
C12_Witness ==
    /\ capabilities # None
    /\ capabilities.read # <<>>
    /\ capabilities.send = <<>>
    /\ \E k \in 1..Len(dispatched) :
            /\ dispatched[k].variant = "SendEvent"
            /\ dispatched[k].negotiated
            /\ Len(Replies(dispatched[k].header)) = 1

\* The messages MessageHandler::handle put on the channel, in the order of its calls
Queued ==
    SelectSeq(incoming,
        LAMBDA e : e.ret.ok /\ e.action.variant # "GetSupportedApiVersion")

\* The send calls on the chat client, in the order they were made
SendCalls == SelectSeq(clientCalls, LAMBDA e : e.op = "send")

\* C13: the requests that are not GetSupportedApiVersion are dispatched in the
\* order MessageHandler::handle received them (the k-th dispatch is the k-th
\* queued request, the channel holds the rest in order), one at a time (a request
\* is dispatched only when the handling of the previous one has ended), and the
\* permitted SendEvents reach the sender in submission order.
C13_DispatchOrder ==
    /\ Len(dispatched) <= Len(Queued)
    /\ \A k \in 1..Len(dispatched) : dispatched[k].header = Queued[k].header
    /\ Len(state_rx) = Len(Queued) - Len(dispatched)
    /\ \A k \in 1..Len(state_rx) :
            state_rx[k].with.header = Queued[Len(dispatched) + k].header
    /\ Len(handled) \in {Len(dispatched) - 1, Len(dispatched)}
    /\ \A k \in 1..Len(handled) : handled[k].header = dispatched[k].header
    /\ \A i, j \in 1..Len(SendCalls) :
            i < j => SendCalls[i].header < SendCalls[j].header

\* C13 witness: two permitted SendEvents reached the sender and were handled
C13_Witness ==
    /\ Len(SendCalls) = 2
    /\ Len(handled) = 2
    /\ SendCalls[1].header = 1
    /\ SendCalls[2].header = 2

IsGetSupportedApiVersion(e) ==
    e.action = [variant |-> "GetSupportedApiVersion", kind |-> "Request"]

\* The reply every GetSupportedApiVersion request is due
SupportedVersionsReply(h) ==
    [type |-> "response", header |-> h, action |-> "GetSupportedApiVersion",
     ok |-> TRUE, err |-> "",
     val |-> [versions |-> <<"V0_0_1", "V0_0_2", "MSC2762", "MSC2871", "MSC3819">>]]

C14_ConstantReply ==
    /\ \A h \in Headers :
            IsGetSupportedApiVersion(incoming[h]) =>
                Replies(h) = IF Accepted(h) THEN <<SupportedVersionsReply(h)>> ELSE <<>>
    /\ \A k \in 1..Len(state_rx) : state_rx[k].variant # "GetSupportedApiVersion"
    /\ \A k \in 1..Len(dispatched) : dispatched[k].variant # "GetSupportedApiVersion"

C14_Frame ==
    (/\ Len(incoming') = Len(incoming) + 1
     /\ IsGetSupportedApiVersion(Last(incoming')))
    => /\ UNCHANGED <<capabilities, state_rx, pc, request, dispatched, handled,
                      clientCalls, desired, initCaller>>
       /\ Last(incoming').ret.ok = connected
       /\ transport' = IF connected
                       THEN Append(transport, SupportedVersionsReply(Len(incoming')))
                       ELSE transport

\* C14: every GetSupportedApiVersion request is answered with the constant list
\* [V0_0_1, V0_0_2, MSC2762, MSC2871, MSC3819] (once, provided the widget is
\* connected) whatever the state of the session, is never put on the channel nor
\* dispatched by State::listen, and its handling leaves capabilities and the
\* state of the listen task unchanged.
C14_SupportedVersions == [](C14_ConstantReply) /\ [][C14_Frame]_vars

\* C14 witness: one GetSupportedApiVersion was answered before capabilities were
\* negotiated and one afterwards
C14_Witness ==
    \E i, j, k \in 1..Len(transport) :
        /\ i < j /\ j < k
        /\ transport[i] = SupportedVersionsReply(1)
        /\ IsOutgoing(transport[j], "CapabilitiesUpdated")
        /\ transport[k] = SupportedVersionsReply(2)

IsOpenIdReply(m, states) ==
    IsResponse(m) /\ m.action = "GetOpenId" /\ m.ok /\ m.val.state \in states

\* C15: every GetOpenId request whose handling ended while the widget was
\* connected is replied first with the decision of the chat client ("allowed" or
\* "blocked") or with "pending", and every outgoing OpenIdCredentialsUpdate
\* follows the "pending" reply to the request it completes.
C15_OpenIdReplied ==
    /\ \A k \in 1..Len(dispatched) :
            LET d == dispatched[k] IN
            (d.variant = "GetOpenId" /\ d.connected /\ Completed(d.header)) =>
                /\ Replies(d.header) # <<>>
                /\ IsOpenIdReply(Replies(d.header)[1], OpenIdDecisions \cup {"pending"})
    /\ \A i \in 1..Len(transport) :
            IsOutgoing(transport[i], "OpenIdCredentialsUpdate") =>
                \E j \in 1..(i - 1) : IsOpenIdReply(transport[j], {"pending"})

C16_FailureReply ==
    \A i \in 1..Len(handled) :
        LET e == handled[i] IN
        (e.err # "" /\ e.connected) =>
            /\ Replies(e.header) # <<>>
            /\ Last(Replies(e.header)) = FailedReply(dispatched[i], e.err)

\* State::listen is inside its `while let Some(request) = rx.recv().await` loop
LoopEntered ==
    /\ pc \notin {"start", "done"}
    /\ init_on_load \/ pc \notin {"init_capabilities", "init_acquire", "init_update"}

C16_Loop ==
    /\ Len(handled') = Len(handled) + 1 =>
            LET e == Last(handled') IN
            /\ (e.err = "" \/ e.connected) => pc' = "recv"
            /\ (e.err # "" /\ ~e.connected) => pc' = "done"
    /\ (pc' = "done" /\ LoopEntered) =>
            \/ /\ Len(handled') = Len(handled) + 1
               /\ Last(handled').err # ""
               /\ ~Last(handled').connected
            \/ pc = "recv" /\ state_rx = <<>> /\ ~state_tx

\* C16: when State::handle returns an error for a request, the error's string is
\* sent as the failed response to that request (its last reply); the loop then
\* awaits the next queued request. Once entered, the loop ends only when that
\* failed response cannot be sent (the widget is gone) or when the channel is
\* closed and empty.
C16_ErrorsAreReplied == [](C16_FailureReply) /\ [][C16_Loop]_vars

\* C16 witness: the first request failed and was answered with the failure, and
\* the loop went on to dispatch the second one
C16_Witness ==
    /\ Len(handled) >= 1
    /\ handled[1].err # ""
    /\ handled[1].connected
    /\ Len(dispatched) = 2

\* The message is a Request-kind message of one of the five variants
IsTypedRequest(e) ==
    e.action.variant \in RequestVariants /\ e.action.kind = "Request"

C17_NeverTyped ==
    \A h \in Headers :
        ~IsTypedRequest(incoming[h]) =>
            /\ incoming[h].ret = Err("Invalid message")
            /\ Replies(h) = <<>>
            /\ \A k \in 1..Len(state_rx) : state_rx[k].with.header # h
            /\ \A k \in 1..Len(dispatched) : dispatched[k].header # h
            /\ \A c \in 1..Len(clientCalls) : clientCalls[c].header # h

C17_Reported ==
    (/\ Len(incoming') = Len(incoming) + 1
     /\ ~IsTypedRequest(Last(incoming')))
    => /\ UNCHANGED <<state_rx, pc, request, capabilities, dispatched>>
       /\ transport' =
            IF connected
            THEN Append(transport,
                    [type |-> "error", header |-> Len(incoming'),
                     action |-> Last(incoming').action.variant,
                     ok |-> FALSE, val |-> None, err |-> "Invalid message"])
            ELSE transport

\* C17: a message that is not a Request-kind message of one of the five variants
\* (a Response in incoming position) never becomes a typed request: handle()
\* returns Err("Invalid message"), the message is never put on the channel, never
\* dispatched and never replied to as a request; it is reported to the widget as
\* "Invalid message" with its own header (provided the widget is connected).
C17_InvalidMessage == [](C17_NeverTyped) /\ [][C17_Reported]_vars

\* C17 witness: a Response in incoming position was reported to the widget, and
\* the request that followed it was queued and dispatched
C17_Witness ==
    /\ Len(incoming) = 2
    /\ ~IsTypedRequest(incoming[1])
    /\ incoming[2].ret.ok
    /\ \E i \in 1..Len(transport) :
            /\ transport[i].type = "error"
            /\ transport[i].header = 1
            /\ transport[i].err = "Invalid message"
    /\ Len(dispatched) = 1

\* The task running State::listen is suspended on another party
Suspended ==
    pc \in {"init_capabilities", "init_acquire", "init_update",
            "openid_handle", "openid_update", "read", "send"}

C28_Replied ==
    \A h \in Headers :
        (IsGetSupportedApiVersion(incoming[h]) /\ Accepted(h)) =>
            \E i \in 1..Len(transport) :
                /\ transport[i] = SupportedVersionsReply(h)
                /\ \A k \in 1..Len(state_rx) :
                        \A j \in 1..Len(transport) :
                            (IsResponse(transport[j])
                             /\ transport[j].header = state_rx[k].with.header) => i < j
                /\ (Suspended /\ request # None) =>
                        \A j \in 1..Len(transport) :
                            (IsResponse(transport[j])
                             /\ transport[j].header = request.with.header
                             /\ request.with.header > h) => i < j

C28_Step ==
    (/\ Len(incoming') = Len(incoming) + 1
     /\ IsGetSupportedApiVersion(Last(incoming'))
     /\ connected
     /\ (Suspended \/ state_rx # <<>>))
    => /\ Len(transport') = Len(transport) + 1
       /\ Last(transport') = SupportedVersionsReply(Len(incoming'))
       /\ Last(incoming').ret.ok
       /\ pc' = pc
       /\ state_rx' = state_rx
       /\ request' = request

\* C28: a GetSupportedApiVersion request is answered by MessageHandler::handle
\* itself, in the step that receives it, also while the task running
\* State::listen is suspended (awaiting the widget's Capabilities reply, the
\* permissions provider, a pending OpenID handle, ...) and while earlier requests
\* wait on the channel: the reply is on the transport before any reply to a
\* request still queued, and the suspended task and the channel are left as
\* they were.
C28_AnsweredWhileSuspended == [](C28_Replied) /\ [][C28_Step]_vars

\* C28 witness: the negotiation at start awaits the permissions provider, request
\* 1 waits on the channel, and GetSupportedApiVersion request 2 has its reply
C28_Witness ==
    /\ pc = "init_acquire"
    /\ Len(state_rx) = 1
    /\ state_rx[1].with.header = 1
    /\ Replies(1) = <<>>
    /\ Last(transport) = SupportedVersionsReply(2)

\* The headers of the requests waiting on the channel
QueuedHeaders == {state_rx[k].with.header : k \in 1..Len(state_rx)}

\* State::handle is suspended for a request
HandleSuspended == Suspended /\ request # None

C30_NothingForQueued ==
    HandleSuspended =>
        \A h \in QueuedHeaders :
            /\ h > request.with.header
            /\ \A k \in 1..Len(dispatched) : dispatched[k].header # h
            /\ \A k \in 1..Len(clientCalls) : clientCalls[k].header # h
            /\ Replies(h) = <<>>

C30_Step ==
    HandleSuspended =>
        /\ dispatched' = dispatched
        /\ \A k \in 1..Len(state_rx) :
                k <= Len(state_rx') /\ state_rx'[k] = state_rx[k]
        /\ \A k \in (Len(clientCalls) + 1)..Len(clientCalls') :
                clientCalls'[k].header \in {0, request.with.header}
        /\ \A k \in (Len(transport) + 1)..Len(transport') :
                IsResponse(transport'[k]) =>
                    \/ transport'[k].header = request.with.header
                    \/ transport'[k].action = "GetSupportedApiVersion"
        /\ request' \in {request, None}

\* C30: the state machine handles one request at a time. While State::handle is
\* suspended for a request (GetOpenId awaiting the handle or the answer to
\* OpenIdCredentialsUpdate, ContentLoaded running the negotiation, ReadEvent or
\* SendEvent awaiting the chat client), no request queued after it is taken from
\* the channel, no chat-client operation is started for one, and no reply is
\* emitted for one.
C30_OneAtATime == [](C30_NothingForQueued) /\ [][C30_Step]_vars

\* C30 witness: after the negotiation at start, GetOpenId request 1 awaits the
\* widget's answer to OpenIdCredentialsUpdate while the permitted SendEvent
\* request 2 waits on the channel, untouched
C30_Witness ==
    /\ pc = "openid_update"
    /\ request.with.header = 1
    /\ Len(state_rx) = 1
    /\ state_rx[1].variant = "SendEvent"
    /\ state_rx[1].with.header = 2
    /\ SenderOf(capabilities).ok
    /\ Len(dispatched) = 1

----------------------------------------------------------------------------
(* Properties of the permissions encoding *)

\* A filter the string grammar can express: its event type holds no '#' (the
\* grammar uses '#' to separate the message type or the state key)
Expressible(filter) ==
    filter.filter.tag = "RoomMessageWithMsgtype" \/ find(filter.filter.event_type, "#") = 0

ExpressiblePermissions(p) ==
    /\ \A i \in 1..Len(p.read) : Expressible(p.read[i])
    /\ \A i \in 1..Len(p.send) : Expressible(p.send[i])

\* Two lists hold the same elements, each as many times
SameElements(a, b) ==
    /\ Len(a) = Len(b)
    /\ \A x \in {a[i] : i \in 1..Len(a)} \cup {b[i] : i \in 1..Len(b)} :
            Cardinality({i \in 1..Len(a) : a[i] = x})
                = Cardinality({i \in 1..Len(b) : b[i] = x})

\* C18: when a Permissions value whose filters are all expressible is serialized
\* and the strings are parsed, the result has the same requires_client, the same
\* read filters and the same send filters (up to their order in each list).
C18_RoundTrip ==
    \A i \in 1..(Len(perm_log) - 1) :
        (/\ perm_log[i].op = "serialize"
         /\ perm_log[i + 1].op = "deserialize"
         /\ ExpressiblePermissions(perm_log[i].value))
        => /\ perm_log[i + 1].strings = perm_log[i].strings
           /\ perm_log[i + 1].value.requires_client = perm_log[i].value.requires_client
           /\ SameElements(perm_log[i + 1].value.read, perm_log[i].value.read)
           /\ SameElements(perm_log[i + 1].value.send, perm_log[i].value.send)

\* C18 witness: a value with requires_client, a message-type filter to read, and
\* a state filter (its state key holding '#' and ':') and an event-type filter to
\* send, went through serialization and parsing
C18_Witness ==
    /\ Len(perm_log) = 2
    /\ perm_log[1].op = "serialize"
    /\ perm_log[2].op = "deserialize"
    /\ perm_log[1].value =
            [requires_client |-> TRUE,
             read |-> <<MessageLike(RoomMessageWithMsgtype("a#:"))>>,
             send |-> <<State(WithTypeAndStateKey("m.room.message", "a#:")),
                        MessageLike(WithType("m.room.message"))>>]
    /\ perm_log[2].value = perm_log[1].value

\* The string expected for a filter of the read list / of the send list
ReadString(filter) ==
    (IF filter.kind = "MessageLike"
     THEN "org.matrix.msc2762.m.receive.event:"
     ELSE "org.matrix.msc2762.m.receive.state_event:") \o PrintEventFilter(filter)

SendString(filter) ==
    (IF filter.kind = "MessageLike"
     THEN "org.matrix.msc2762.m.send.event:"
     ELSE "org.matrix.msc2762.m.send.state_event:") \o PrintEventFilter(filter)

\* C19: serializing a Permissions value p emits (and announces) exactly
\* requires_client (0 or 1) + |read| + |send| strings: the literal
\* "io.element.requires_client" first if requires_client is set, then one string
\* per read filter in list order, prefixed by the receive.event or
\* receive.state_event literal according to the filter's kind, then one string per
\* send filter in list order, prefixed by the send.event or send.state_event
\* literal.
C19_SerializationOrder ==
    \A k \in 1..Len(perm_log) :
        perm_log[k].op = "serialize" =>
            LET p == perm_log[k].value
                s == perm_log[k].strings
                rc == IF p.requires_client THEN 1 ELSE 0
            IN  /\ Len(s) = rc + Len(p.read) + Len(p.send)
                /\ perm_log[k].seq_len = Len(s)
                /\ p.requires_client => s[1] = "io.element.requires_client"
                /\ \A i \in 1..Len(p.read) : s[rc + i] = ReadString(p.read[i])
                /\ \A i \in 1..Len(p.send) :
                        s[rc + Len(p.read) + i] = SendString(p.send[i])

\* C19 witness: a value with requires_client, two read filters of different kinds
\* and a send filter was serialized
C19_Witness ==
    \E k \in 1..Len(perm_log) :
        /\ perm_log[k].op = "serialize"
        /\ perm_log[k].value.requires_client
        /\ Len(perm_log[k].value.read) = 2
        /\ perm_log[k].value.read[1].kind = "State"
        /\ perm_log[k].value.read[2].kind = "MessageLike"
        /\ Len(perm_log[k].value.send) = 1
        /\ Len(perm_log[k].strings) = 4

\* s starts with the string t
StartsWith(s, t) == Len(s) >= Len(t) /\ SubSeq(s, 1, Len(t)) = t

\* The string is the requires_client literal
IsRequiresClient(s) == s = "io.element.requires_client"

\* The string starts with one of the four action prefixes followed by ':'
HasActionPrefix(s) ==
    \E prefix \in {"org.matrix.msc2762.m.send.event:",
                   "org.matrix.msc2762.m.receive.event:",
                   "org.matrix.msc2762.m.send.state_event:",
                   "org.matrix.msc2762.m.receive.state_event:"} : StartsWith(s, prefix)

Recognised(s) == IsRequiresClient(s) \/ HasActionPrefix(s)

\* C20: parsing a list of strings yields a Permissions value whatever strings it
\* holds; a string that is neither the requires_client literal nor starts with
\* one of the four action prefixes followed by ':' adds nothing to it: the result
\* has one filter per string with an action prefix, requires_client is set iff the
\* literal occurs, and the result equals that of parsing the list without the
\* unrecognised strings.
C20_UnknownDropped ==
    \A k \in 1..Len(perm_log) :
        perm_log[k].op = "deserialize" =>
            LET s == perm_log[k].strings
                p == perm_log[k].value
            IN  /\ p = Permissions_deserialize(SelectSeq(s, Recognised))
                /\ Len(p.read) + Len(p.send) = Len(SelectSeq(s, HasActionPrefix))
                /\ p.requires_client <=> Len(SelectSeq(s, IsRequiresClient)) > 0

\* C20 witness: a list with an unknown string between a read permission and a
\* send permission was parsed; both filters are in the result
C20_Witness ==
    /\ Len(perm_log) = 1
    /\ perm_log[1].op = "deserialize"
    /\ perm_log[1].strings =
            <<"org.matrix.msc2762.m.receive.event:m.room.message#",
              "org.example.unknown:xyz",
              "org.matrix.msc2762.m.send.state_event:m.room.message">>
    /\ perm_log[1].value =
            [requires_client |-> FALSE,
             read |-> <<MessageLike(RoomMessageWithMsgtype(""))>>,
             send |-> <<State(WithType("m.room.message"))>>]

\* The parts of a string before and after its first ':' ("" and the string
\* itself when it holds none)
BeforeColon(s) ==
    IF \E i \in 1..Len(s) : SubSeq(s, i, i) = ":"
    THEN SubSeq(s, 1, (CHOOSE i \in 1..Len(s) :
                        /\ SubSeq(s, i, i) = ":"
                        /\ \A j \in 1..(i - 1) : SubSeq(s, j, j) # ":") - 1)
    ELSE ""
AfterColon(s) == SubSeq(s, Len(BeforeColon(s)) + 2, Len(s))

\* The filter the grammar assigns to the tail of a message-like permission
GrammarMessageLike(tail) ==
    IF StartsWith(tail, "m.room.message#")
    THEN [tag |-> "RoomMessageWithMsgtype", msgtype |-> SubSeq(tail, 16, Len(tail))]
    ELSE [tag |-> "WithType", event_type |-> tail]

\* The filter the grammar assigns to the tail of a state permission
GrammarState(tail) ==
    LET Hashes == {i \in 1..Len(tail) : SubSeq(tail, i, i) = "#"} IN
    IF Hashes = {} THEN [tag |-> "WithType", event_type |-> tail]
    ELSE LET i == CHOOSE k \in Hashes : \A j \in Hashes : k <= j IN
         [tag |-> "WithTypeAndStateKey",
          event_type |-> SubSeq(tail, 1, i - 1),
          state_key |-> SubSeq(tail, i + 1, Len(tail))]

\* The filter the grammar assigns to a string with an action prefix
GrammarFilter(s) ==
    IF BeforeColon(s) \in {"org.matrix.msc2762.m.receive.event",
                          "org.matrix.msc2762.m.send.event"}
    THEN [kind |-> "MessageLike", filter |-> GrammarMessageLike(AfterColon(s))]
    ELSE [kind |-> "State", filter |-> GrammarState(AfterColon(s))]

IsReadString(s) ==
    BeforeColon(s) \in {"org.matrix.msc2762.m.receive.event",
                        "org.matrix.msc2762.m.receive.state_event"}
IsSendString(s) ==
    BeforeColon(s) \in {"org.matrix.msc2762.m.send.event",
                        "org.matrix.msc2762.m.send.state_event"}

\* C27: parsing follows the grammar. A string counts when the part before its
\* first ':' is one of the four action prefixes; after a message-like prefix a
\* tail starting with "m.room.message#" gives RoomMessageWithMsgtype(remainder)
\* and any other tail WithType(tail); after a state prefix a tail with a '#' is
\* split at its first '#' into WithTypeAndStateKey(type, state_key) and a tail
\* without '#' gives WithType(tail). The read list holds the filters of the
\* strings with a read prefix and the send list those with a send prefix, both
\* in input order.
C27_Grammar ==
    \A k \in 1..Len(perm_log) :
        perm_log[k].op = "deserialize" =>
            LET reads == SelectSeq(perm_log[k].strings, IsReadString)
                sends == SelectSeq(perm_log[k].strings, IsSendString)
            IN  /\ perm_log[k].value.read =
                        [i \in 1..Len(reads) |-> GrammarFilter(reads[i])]
                /\ perm_log[k].value.send =
                        [i \in 1..Len(sends) |-> GrammarFilter(sends[i])]

\* C27 witness: a list with a state permission whose tail holds two '#', a
\* message-type permission and an event-type permission was parsed
C27_Witness ==
    /\ Len(perm_log) = 1
    /\ perm_log[1].op = "deserialize"
    /\ perm_log[1].strings =
            <<"org.matrix.msc2762.m.receive.state_event:m.room.message#a#:",
              "org.matrix.msc2762.m.receive.event:m.room.message#",
              "org.matrix.msc2762.m.send.event:m.room.message">>
    /\ perm_log[1].value.read =
            <<State(WithTypeAndStateKey("m.room.message", "a#:")),
              MessageLike(RoomMessageWithMsgtype(""))>>
    /\ perm_log[1].value.send = <<MessageLike(WithType("m.room.message"))>>

----------------------------------------------------------------------------
(* Properties of event filter matching *)

\* C21: a message-like filter never matches an event whose state key is present,
\* a state filter never matches an event whose state key is absent, and no event
\* is matched both by a message-like filter and by a state filter.
C21_KindsDisjoint ==
    /\ \A i \in 1..Len(filter_log) :
        LET e == filter_log[i] IN
        /\ (e.filter.kind = "MessageLike" /\ e.matrix_event.state_key # None)
                => ~e.result
        /\ (e.filter.kind = "State" /\ e.matrix_event.state_key = None)
                => ~e.result
    /\ \A i, j \in 1..Len(filter_log) :
        ~(/\ filter_log[i].filter.kind = "MessageLike"
          /\ filter_log[j].filter.kind = "State"
          /\ filter_log[i].matrix_event = filter_log[j].matrix_event
          /\ filter_log[i].result
          /\ filter_log[j].result)

\* C21 witness: an m.room.message event with msgtype "m.text" and the empty
\* state key was refused by the message-type filter for "m.text" and matched by
\* the state filter for its type
C21_Witness ==
    /\ Len(filter_log) = 2
    /\ filter_log[1].matrix_event =
            [event_type |-> [timeline |-> "m.room.message"],
             state_key |-> Some(""),
             content |-> [msgtype |-> Some("m.text")]]
    /\ filter_log[1].filter = MessageLike(RoomMessageWithMsgtype("m.text"))
    /\ ~filter_log[1].result
    /\ filter_log[2].filter = State(WithType("m.room.message"))
    /\ filter_log[2].result

\* The msgtype of a request's content read as { msgtype: string? }: the string
\* of an object's "msgtype" member; absent when the member is missing or null,
\* and when the content does not have that form
ReferenceMsgtype(content) ==
    IF /\ content.json = "object"
       /\ content.msgtype # None
       /\ content.msgtype.some.json = "string"
    THEN Some(content.msgtype.some.s)
    ELSE None

\* The table of matches: the verdict of a filter on an event of the given type,
\* state key and msgtype
ReferenceMatches(filter, event_type, state_key, msgtype) ==
    CASE filter.kind = "MessageLike" /\ filter.filter.tag = "WithType" ->
            state_key = None /\ event_type = filter.filter.event_type
      [] filter.kind = "MessageLike" /\ filter.filter.tag = "RoomMessageWithMsgtype" ->
            /\ state_key = None
            /\ event_type = "m.room.message"
            /\ msgtype = Some(filter.filter.msgtype)
      [] filter.kind = "State" /\ filter.filter.tag = "WithType" ->
            state_key # None /\ event_type = filter.filter.event_type
      [] filter.kind = "State" /\ filter.filter.tag = "WithTypeAndStateKey" ->
            /\ state_key = Some(filter.filter.state_key)
            /\ event_type = filter.filter.event_type

\* The table holds of the input EventFilter::matches was given
TableOnInput ==
    \A i \in 1..Len(filter_log) :
        LET e == filter_log[i] IN
        e.result = ReferenceMatches(e.filter, e.matrix_event.event_type.timeline,
                                    e.matrix_event.state_key,
                                    e.matrix_event.content.msgtype)

\* C22: EventFilter::matches equals the table (message-like WithType(t): state
\* key absent and type t; RoomMessageWithMsgtype(m): state key absent, type
\* "m.room.message" and content.msgtype m; state WithType(t): state key present
\* and type t; WithTypeAndStateKey(t, k): state key k and type t), and a
\* SendEvent request whose content does not parse as { msgtype: string? } is
\* evaluated with msgtype absent.
C22_MatchesTable ==
    \A i \in 1..Len(filter_log) :
        LET e == filter_log[i] IN
        e.result = ReferenceMatches(e.filter, e.request.event_type.timeline,
                                    e.request.state_key,
                                    ReferenceMsgtype(e.request.content))

----------------------------------------------------------------------------
(* Properties of DebugMutex *)

\* The callers that own a guard of the tokio mutex, and those whose
\* DebugMutexGuard exists
InnerGuards == {t \in DOMAIN lock_pc : lock_pc[t] \in {"acquired", "holding", "releasing"}}
Guards == {t \in DOMAIN lock_pc : lock_pc[t] = "holding"}

\* C23: exclusive access. At most one caller holds a guard at any time, that
\* caller owns the tokio mutex, and this also holds while other callers have
\* passed their 50 ms deadline.
C23_Exclusive ==
    /\ Cardinality(InnerGuards) <= 1
    /\ \A t \in InnerGuards : inner = t
    /\ Cardinality(Guards) <= 1

\* C23 witness: one caller holds the guard while the two others have passed
\* their deadline, one of them waiting again
C23_Witness ==
    /\ Cardinality(Guards) = 1
    /\ \E t \in DOMAIN lock_pc : lock_pc[t] = "rewaiting"
    /\ \E t \in DOMAIN lock_pc : lock_pc[t] = "relock"

C24_Record ==
    /\ \A t \in DOMAIN lock_pc :
            lock_pc[t] = "holding" => last_locked_from = Some(Location(t))
    /\ Guards = {} => last_locked_from = None
    /\ last_locked_from # None =>
            \E t \in Guards : last_locked_from.some = Location(t) /\ inner = t

C24_Step ==
    \A t \in DOMAIN lock_pc :
        /\ (lock_pc[t] # "holding" /\ lock_pc'[t] = "holding")
                => last_locked_from' = Some(Location(t))
        /\ (lock_pc[t] = "holding" /\ lock_pc'[t] # "holding")
                => last_locked_from' = None
        /\ (lock_pc[t] = "releasing" /\ lock_pc'[t] = "done")
                => last_locked_from' = last_locked_from

\* C24: every lock() that succeeds stores its call site as the holder, and
\* dropping the guard clears the record; whenever no guard exists the record is
\* empty, and a record that is not empty names the call site of the caller
\* that holds the guard now (releasing the mutex changes no record, so it never
\* erases the one written by the next holder).
C24_HolderRecord == [](C24_Record) /\ [][C24_Step]_vars

\* C24 witness: the second holder's call site is recorded after the first
\* holder has dropped its guard
C24_Witness ==
    \E t, u \in DOMAIN lock_pc :
        /\ lock_pc[t] = "done"
        /\ lock_pc[u] = "holding"
        /\ grants = <<t, u>>
        /\ last_locked_from = Some(Location(u))

\* The diagnostics emitted by the lock() of caller t
DiagnosticsOf(t) == SelectSeq(diagnostics, LAMBDA d : d.caller = t)

C25_Count ==
    \A t \in DOMAIN lock_pc :
        /\ lock_pc[t] \in {"idle", "waiting", "elapsed", "timed_out"}
                => Len(DiagnosticsOf(t)) = 0
        /\ lock_pc[t] \in {"relock", "rewaiting"} => Len(DiagnosticsOf(t)) = 1
        /\ Len(DiagnosticsOf(t)) <= 1

C25_Step ==
    \A t \in DOMAIN lock_pc :
        \* the one diagnostic, emitted when the deadline has passed
        /\ (lock_pc[t] = "timed_out" /\ lock_pc'[t] # "timed_out") =>
                /\ lock_pc'[t] = "relock"
                /\ Len(diagnostics') = Len(diagnostics) + 1
                /\ Last(diagnostics').caller = t
                /\ IF \E u \in Guards : TRUE
                   THEN /\ Last(diagnostics').level = "warn"
                        /\ \E u \in Guards :
                                Last(diagnostics').location = Some(Location(u))
                   ELSE /\ Last(diagnostics').level = "error"
                        /\ Last(diagnostics').message = "locking timed out. no caller info."
        /\ (lock_pc[t] # "timed_out" \/ lock_pc'[t] = "timed_out")
                => DiagnosticsOf(t)' = DiagnosticsOf(t)
        \* acquired within the deadline: no diagnostic
        /\ (lock_pc[t] \in {"idle", "waiting"} /\ lock_pc'[t] = "acquired")
                => DiagnosticsOf(t)' = <<>>
        \* after the diagnostic the caller waits without a deadline until the
        \* mutex is handed to it
        /\ lock_pc[t] = "relock" => lock_pc'[t] \in {"relock", "rewaiting", "acquired"}
        /\ lock_pc[t] = "rewaiting" => lock_pc'[t] \in {"rewaiting", "acquired"}
        /\ (lock_pc[t] = "rewaiting" /\ lock_pc'[t] = "acquired") => inner = t
        /\ (lock_pc[t] = "acquired" /\ lock_pc'[t] # "acquired") => lock_pc'[t] = "holding"

\* C25: a lock() that has not acquired the mutex at its deadline emits exactly
\* one diagnostic (a warning naming the recorded call site of the holder, or
\* the error "no caller info" when none is recorded), then waits with no
\* further deadline and returns the guard once the mutex is handed to it: the
\* timeout never makes lock() fail. A lock() that acquires within the deadline
\* emits no diagnostic.
C25_OneDiagnostic == [](C25_Count) /\ [][C25_Step]_vars

\* C25 witness: a caller holds the guard after its lock() timed out, and both
\* a warning naming a holder and the error have been emitted
C25_Witness ==
    /\ \E t \in Guards : Len(DiagnosticsOf(t)) = 1
    /\ \E i \in 1..Len(diagnostics) :
            diagnostics[i].level = "warn" /\ diagnostics[i].location # None
    /\ \E i \in 1..Len(diagnostics) : diagnostics[i].level = "error"

\* C26: DebugMutex grants the mutex to the same callers in the same order as a
\* plain FIFO async mutex: the k-th caller to obtain the mutex is the k-th
\* caller that started to wait for it, also when a waiter's deadline has
\* elapsed (it keeps its place among the waiters).
C26_FifoOrder ==
    /\ Len(grants) <= Len(lock_calls)
    /\ \A k \in 1..Len(grants) : grants[k] = lock_calls[k]

\* Every lock() eventually returns its guard (holds under MutexFairSpec)
EveryLockAcquires ==
    \A t \in Callers :
        (lock_pc[t] \in {"waiting", "elapsed", "timed_out", "relock", "rewaiting",
                         "acquired"}) ~> (lock_pc[t] = "holding")

----------------------------------------------------------------------------
(* Properties of SyncResponseBuilder *)

\* The maps that hold a room
MapsHolding(room_id) ==
    {m \in {"joined", "invited", "left"} :
        room_id \in DOMAIN (CASE m = "joined" -> joined_rooms
                              [] m = "invited" -> invited_rooms
                              [] m = "left" -> left_rooms)}

\* A body without rooms
NoRooms(body) ==
    /\ DOMAIN body.rooms.join = {}
    /\ DOMAIN body.rooms.invite = {}
    /\ DOMAIN body.rooms.leave = {}

\* The add_* call most recently applied to a room and not cleared since
LastAdd(room_id) ==
    IF room_adds[room_id] = <<>> \/ Last(room_adds[room_id]) = "cleared"
    THEN "none"
    ELSE Last(room_adds[room_id])

C29_OneMap ==
    \A room_id \in DOMAIN room_adds :
        /\ Cardinality(MapsHolding(room_id)) <= 1
        /\ MapsHolding(room_id) =
                IF LastAdd(room_id) = "none" THEN {} ELSE {LastAdd(room_id)}

C29_Build ==
    Len(responses') = Len(responses) + 1 =>
        /\ DOMAIN joined_rooms' = {}
        /\ DOMAIN invited_rooms' = {}
        /\ DOMAIN left_rooms' = {}
        /\ Last(responses').rooms.join = joined_rooms
        /\ Last(responses').rooms.invite = invited_rooms
        /\ Last(responses').rooms.leave = left_rooms
        /\ (\A room_id \in DOMAIN room_adds : LastAdd(room_id) = "none")
                => NoRooms(Last(responses'))

\* C29: after any sequence of add_joined_room, add_invited_room and
\* add_left_room each room id is in at most one of the maps joined, invited and
\* left, namely in the map of the most recent add_* call for that id; and
\* build_json_sync_response returns the rooms added and empties the three maps,
\* so a build that follows with no additions in between contains no rooms.
C29_RoomsInOneMap == [](C29_OneMap) /\ [][C29_Build]_vars

\* C29 witness: a room was added as left and then as joined, another as
\* invited; the first build returned them in the maps of their last add, and
\* the build that followed at once returned no rooms
C29_Witness ==
    /\ Len(responses) = 2
    /\ room_adds["!a:localhost"] = <<"left", "joined", "cleared">>
    /\ room_adds["!b:localhost"] = <<"invited", "cleared">>
    /\ DOMAIN responses[1].rooms.join = {"!a:localhost"}
    /\ DOMAIN responses[1].rooms.invite = {"!b:localhost"}
    /\ DOMAIN responses[1].rooms.leave = {}
    /\ NoRooms(responses[2])
    /\ responses[2].next_batch.batch = 2

----------------------------------------------------------------------------
(* Parsing as a normal form of permission strings *)

\* The strings of a list that parsing keeps: REQUIRES_CLIENT and those with an
\* action prefix
KeptStrings(strings) ==
    SelectSeq(strings, LAMBDA str : str = "io.element.requires_client"
                                       \/ IsReadString(str) \/ IsSendString(str))

\* C31: parsing is a normal form. When a list of strings is parsed, the value
\* serialized and the result parsed again, the second parse gives the value of
\* the first: the strings of the first pass are those the input keeps
\* (REQUIRES_CLIENT once if present, then the read strings, then the send
\* strings, each group in input order with its duplicates), and serializing
\* the second value gives the same strings again.
C31_NormalForm ==
    \A i \in 1..(Len(perm_log) - 2) :
        (/\ perm_log[i].op = "deserialize"
         /\ perm_log[i + 1].op = "serialize"
         /\ perm_log[i + 2].op = "deserialize")
        => /\ perm_log[i + 1].value = perm_log[i].value
           /\ perm_log[i + 2].strings = perm_log[i + 1].strings
           /\ perm_log[i + 2].value = perm_log[i].value
           /\ Permissions_serialize(perm_log[i + 2].value) = perm_log[i + 1].strings
           /\ perm_log[i + 1].strings =
                (IF \E k \in 1..Len(perm_log[i].strings) :
                        perm_log[i].strings[k] = "io.element.requires_client"
                 THEN <<"io.element.requires_client">> ELSE <<>>)
                \o SelectSeq(perm_log[i].strings, IsReadString)
                \o SelectSeq(perm_log[i].strings, IsSendString)
           /\ Len(perm_log[i + 2].value.read) + Len(perm_log[i + 2].value.send)
                = Len(SelectSeq(perm_log[i].strings,
                                LAMBDA str : IsReadString(str) \/ IsSendString(str)))

\* C31 witness: a list with a send string before an unknown string and a read
\* string was parsed, serialized (the unknown string dropped, the read string
\* moved first) and parsed again
C31_Witness ==
    /\ Len(perm_log) = 3
    /\ perm_log[1].op = "deserialize"
    /\ perm_log[1].strings =
            <<"org.matrix.msc2762.m.send.event:m.room.message",
              "org.example.unknown:xyz",
              "org.matrix.msc2762.m.receive.state_event:m.room.message#a#:">>
    /\ perm_log[2].strings =
            <<"org.matrix.msc2762.m.receive.state_event:m.room.message#a#:",
              "org.matrix.msc2762.m.send.event:m.room.message">>
    /\ perm_log[3].op = "deserialize"
    /\ perm_log[3].value = perm_log[1].value
    /\ perm_log[3].value.read = <<State(WithTypeAndStateKey("m.room.message", "a#:"))>>

----------------------------------------------------------------------------
(* Failed negotiations *)

\* The positions of State::initialize
InInitialize == pc \in {"init_capabilities", "init_acquire", "init_update"}

\* This step takes a request of the given variant from the channel
Dispatches(variant) ==
    /\ Len(dispatched') = Len(dispatched) + 1
    /\ Last(dispatched').variant = variant

\* This step ends a call of State::initialize with an error
InitializeFails ==
    /\ Len(initResults') = Len(initResults) + 1
    /\ ~Last(initResults').ok

C32_Stored ==
    init_on_load =>
        \* capabilities are stored by the negotiation only
        /\ pc = "init_update" => capabilities # None
        /\ pc \in {"init_capabilities", "init_acquire"} => capabilities = None
        /\ Cardinality({k \in 1..Len(clientCalls) : clientCalls[k].op = "initialize"})
                >= (IF capabilities # None THEN 1 ELSE 0)

C32_Step ==
    init_on_load =>
        \* a failure before the capabilities are stored leaves them None
        /\ (pc = "init_capabilities" /\ InitializeFails)
                => capabilities' = None /\ ~(pc' \in {"init_acquire", "init_update"})
        \* ... and the next ContentLoaded starts the negotiation again
        /\ (Dispatches("ContentLoaded") /\ capabilities = None) =>
                IF connected
                THEN /\ pc' = "init_capabilities"
                     /\ IsOutgoing(Last(transport'), "Capabilities")
                     /\ initResults' = initResults
                ELSE InitializeFails /\ Last(initResults').err.tag = "WidgetDisconnected"
        \* a failure after the capabilities are stored leaves them as stored
        /\ (pc = "init_update" /\ InitializeFails)
                => capabilities' = capabilities /\ capabilities' # None
        \* stored capabilities never change and negotiation is not started again
        /\ capabilities # None =>
                /\ capabilities' = capabilities
                /\ pc' \in {"init_capabilities", "init_acquire", "init_update"}
                        => (pc = "init_update" /\ pc' = "init_update")
                /\ Len(initResults') > Len(initResults) => pc = "init_update"
                /\ \A k \in (Len(transport) + 1)..Len(transport') :
                        ~IsOutgoing(transport'[k], "Capabilities")
        \* ... and the session serves read and send under them, also after the
        \* failure
        /\ (Dispatches("SendEvent") /\ capabilities # None /\ capabilities.sender) =>
                /\ pc' = "send"
                /\ Last(clientCalls') = [op |-> "send", header |-> Last(dispatched').header,
                                         negotiated |-> TRUE]
        /\ (Dispatches("ReadEvent") /\ capabilities # None /\ capabilities.reader) =>
                /\ pc' = "read"
                /\ Last(clientCalls') = [op |-> "read", header |-> Last(dispatched').header,
                                         negotiated |-> TRUE]

\* C32: with init_on_load = true, a negotiation started by ContentLoaded that
\* fails before the capabilities are stored (the widget answers the Capabilities
\* request with an error) leaves capabilities None, and the next ContentLoaded
\* starts the negotiation again; one that fails after they are stored (an error
\* answer to CapabilitiesUpdated) leaves capabilities as stored, read and send
\* requests are served under them, and no negotiation is ever started again.
C32_FailedNegotiation == [](C32_Stored) /\ [][C32_Step]_vars

\* C32 witness: the widget answered the Capabilities request of the first
\* ContentLoaded with an error, and the second ContentLoaded has started the
\* negotiation again
C32_Witness ==
    /\ init_on_load
    /\ Len(initResults) = 1
    /\ ~initResults[1].ok
    /\ initResults[1].err.tag = "WidgetErrorReply"
    /\ widgetResponses = <<[to |-> "Capabilities", ok |-> FALSE]>>
    /\ capabilities = None
    /\ Len(dispatched) = 2
    /\ dispatched[2].variant = "ContentLoaded"
    /\ pc = "init_capabilities"

====
